---- MODULE Spec2Model ----
(***************************************************************************)
(* Moltblock: the gating core (WorkingMemory, verifiers, the three run     *)
(* loops), the durable store (verified memory, checkpoints, outcomes,      *)
(* strategies, governance state, audit log) and governance.                *)
(*                                                                         *)
(* Text is modelled as a sequence of one-character strings, so that the    *)
(* syntax check, trimming and truncation are computed, not assumed.        *)
(* Date.now() is the variable now, in milliseconds; it never runs          *)
(* backwards in the model.                                                 *)
(***************************************************************************)
EXTENDS Integers, Sequences, FiniteSets, TLC

VARIABLES
    now,               \* Date.now(), milliseconds
    verified_memory,   \* table verified_memory, rows in id order
    checkpoints,       \* table checkpoints, rows in id order
    outcomes,          \* table outcomes, rows in id order
    strategies,        \* table strategies, rows in id order
    audit_log,         \* table audit_log, rows in id order
    governance_state,  \* table governance_state: <<entity_id, key>> -> value
    inbox,             \* table inbox, rows in id order
    runner,            \* the GraphRunner / CodeEntity / Entity object that runs
    memory,            \* the WorkingMemory of the run in flight (or last returned)
    run,               \* the run in flight: its options, position and locals
    writers,           \* concurrent setStrategy callers: position and maxVersion read
    ret,               \* the last completed call and what it returned
    calls              \* number of calls started, bounds the exploration

vars == <<now, verified_memory, checkpoints, outcomes, strategies, audit_log,
          governance_state, inbox, runner, memory, run, writers, ret, calls>>

storeVars == <<verified_memory, checkpoints, outcomes, strategies, audit_log,
               governance_state, inbox>>

----------------------------------------------------------------------------
(* Bounds of the exploration *)

MaxTime == 1          \* the clock stops advancing here
MaxRuns == 2          \* runs started
MaxGovCalls == 3      \* governance calls made
MaxGovTime == 3       \* the clock of the governance exploration stops here
MaxStrategyRows == 4  \* rows of the strategies table
MaxRules == 2         \* custom rules given to one PolicyVerifier
MaxEdges == 3         \* edges of a graph
MaxFinalEdges == 2    \* edges of a graph whose final node is resolved
MaxInbox == 2         \* rows of the inbox table
MaxEvalTasks == 2     \* tasks of one evaluation
MaxDatabaseOps == 2   \* calls started on the shared database
MaxRunEdges == 2      \* edges of the graph a GraphRunner runs
MaxContextRows == 6   \* rows put in verified memory by direct calls
MaxCodeLen == 4       \* characters of a candidate given to runVerifier

----------------------------------------------------------------------------
(* Text helpers *)

Min(a, b) == IF a < b THEN a ELSE b

\* String.prototype.slice(0, n)
Slice(s, n) == SubSeq(s, 1, Min(Len(s), n))

Whitespace == {" ", "\n", "\t"}

RECURSIVE TrimStart(_)
TrimStart(s) ==
    IF s # <<>> /\ Head(s) \in Whitespace THEN TrimStart(Tail(s)) ELSE s

RECURSIVE TrimEnd(_)
TrimEnd(s) ==
    IF s # <<>> /\ s[Len(s)] \in Whitespace
    THEN TrimEnd(SubSeq(s, 1, Len(s) - 1))
    ELSE s

\* String.prototype.trim()
Trim(s) == TrimEnd(TrimStart(s))

\* String.prototype.startsWith
StartsWith(s, p) == Len(s) >= Len(p) /\ SubSeq(s, 1, Len(p)) = p

\* String.prototype.split("\n"): always at least one line
RECURSIVE SplitLines(_)
SplitLines(s) ==
    IF \A i \in 1..Len(s) : s[i] # "\n"
    THEN <<s>>
    ELSE LET k == CHOOSE i \in 1..Len(s) :
                     s[i] = "\n" /\ \A j \in 1..(i - 1) : s[j] # "\n"
         IN  <<SubSeq(s, 1, k - 1)>> \o SplitLines(SubSeq(s, k + 1, Len(s)))

\* Array.prototype.join("\n")
RECURSIVE JoinLines(_)
JoinLines(ls) ==
    IF ls = <<>> THEN <<>>
    ELSE IF Len(ls) = 1 THEN ls[1]
    ELSE ls[1] \o <<"\n">> \o JoinLines(Tail(ls))

\* The backquote character (it cannot be written inside a TLA+ string)
Backquote == "<backquote>"

Fence == <<Backquote, Backquote, Backquote>>

extractCodeBlock(text) ==
    LET trimmed == Trim(text) IN
    IF StartsWith(trimmed, Fence)
    THEN LET lines0 == SplitLines(trimmed)
             \* lines[0] starts with the fence because trimmed does
             lines1 == Tail(lines0)
             lines2 == IF lines1 # <<>> /\ Trim(lines1[Len(lines1)]) = Fence
                       THEN SubSeq(lines1, 1, Len(lines1) - 1)
                       ELSE lines1
         IN  JoinLines(lines2)
    ELSE trimmed

----------------------------------------------------------------------------
(* syntaxCheck: the bracket-balance scan *)

NoChar == "<none>"

CharAt(code, i) == IF i >= 1 /\ i <= Len(code) THEN code[i] ELSE NoChar

ScanInit ==
    [brace |-> 0, paren |-> 0, bracket |-> 0, inString |-> FALSE,
     stringChar |-> "", inComment |-> FALSE, inBlockComment |-> FALSE,
     error |-> ""]

\* One iteration of the for loop at (1-based) position i; returns the
\* scanner state and the position of the next iteration.
ScanStep(code, i, st) ==
    LET char == code[i]
        nextChar == CharAt(code, i + 1)
        prevChar == CharAt(code, i - 1)
    IN
    IF ~st.inString /\ char = "/" /\ nextChar = "/" /\ ~st.inBlockComment
    THEN [st |-> [st EXCEPT !.inComment = TRUE], next |-> i + 1]
    ELSE IF ~st.inString /\ char = "/" /\ nextChar = "*" /\ ~st.inComment
    THEN [st |-> [st EXCEPT !.inBlockComment = TRUE], next |-> i + 2]
    ELSE IF ~st.inString /\ char = "*" /\ nextChar = "/" /\ st.inBlockComment
    THEN [st |-> [st EXCEPT !.inBlockComment = FALSE], next |-> i + 2]
    ELSE IF ~st.inString /\ char = "\n" /\ st.inComment
    THEN [st |-> [st EXCEPT !.inComment = FALSE], next |-> i + 1]
    ELSE IF st.inComment \/ st.inBlockComment
    THEN [st |-> st, next |-> i + 1]
    ELSE IF char \in {"\"", "'", Backquote} /\ prevChar # "\\"
    THEN [st |-> IF ~st.inString
                 THEN [st EXCEPT !.inString = TRUE, !.stringChar = char]
                 ELSE IF char = st.stringChar
                 THEN [st EXCEPT !.inString = FALSE, !.stringChar = ""]
                 ELSE st,
          next |-> i + 1]
    ELSE IF st.inString
    THEN [st |-> st, next |-> i + 1]
    ELSE LET b == st.brace + (IF char = "{" THEN 1 ELSE 0)
                           - (IF char = "}" THEN 1 ELSE 0)
             p == st.paren + (IF char = "(" THEN 1 ELSE 0)
                           - (IF char = ")" THEN 1 ELSE 0)
             k == st.bracket + (IF char = "[" THEN 1 ELSE 0)
                             - (IF char = "]" THEN 1 ELSE 0)
             counted == [st EXCEPT !.brace = b, !.paren = p, !.bracket = k]
         IN  [st |-> IF b < 0 \/ p < 0 \/ k < 0
                     THEN [counted EXCEPT !.error = "Unmatched closing bracket"]
                     ELSE counted,
              next |-> i + 1]

RECURSIVE Scan(_, _, _)

\* The loop goes on from where the iteration r left it
ScanFrom(code, r) == Scan(code, r.next, r.st)

Scan(code, i, st) ==
    IF i > Len(code) \/ st.error # "" THEN st
    ELSE ScanFrom(code, ScanStep(code, i, st))

\* The checks after the loop, on the scanner state it ends in
ScanVerdict(st) ==
    IF st.error # "" THEN st.error
    ELSE IF st.brace # 0
    THEN IF st.brace > 0 THEN "Unmatched braces (missing })"
         ELSE "Unmatched braces (extra })"
    ELSE IF st.paren # 0
    THEN IF st.paren > 0 THEN "Unmatched parentheses (missing ))"
         ELSE "Unmatched parentheses (extra ))"
    ELSE IF st.bracket # 0
    THEN IF st.bracket > 0 THEN "Unmatched brackets (missing ])"
         ELSE "Unmatched brackets (extra ])"
    ELSE IF st.inString THEN "Unterminated string"
    ELSE ""

\* Returns the error text, "" when the code is valid
syntaxCheck(code) == ScanVerdict(Scan(code, 1, ScanInit))

----------------------------------------------------------------------------
(* WorkingMemory *)

\* {} of a Record<string, ...>
EmptyMap == [k \in {} |-> <<>>]

NewWorkingMemory ==
    [task |-> <<>>, draft |-> <<>>, critique |-> <<>>, finalCandidate |-> <<>>,
     verificationPassed |-> FALSE, verificationEvidence |-> <<>>,
     authoritativeArtifact |-> <<>>, meta |-> EmptyMap, slots |-> EmptyMap,
     longTermContext |-> <<>>]

setTask(m, task) == [m EXCEPT !.task = task]

setDraft(m, draft) == [m EXCEPT !.draft = draft]

setCritique(m, critique) == [m EXCEPT !.critique = critique]

setFinalCandidate(m, candidate) == [m EXCEPT !.finalCandidate = candidate]

setVerification(m, passed, evidence) ==
    [m EXCEPT !.verificationPassed = passed,
              !.verificationEvidence = evidence,
              !.authoritativeArtifact =
                  IF passed THEN m.finalCandidate ELSE m.authoritativeArtifact]

\* slots and meta are maps; a map is a function whose domain is the keys set
Put(map, key, value) ==
    [k \in (DOMAIN map) \cup {key} |-> IF k = key THEN value ELSE map[k]]

\* The write that puts the content in every slot already written as well
setSlot_overwritesAll(m, nodeId, content) ==
    [m EXCEPT !.slots = [k \in (DOMAIN m.slots) \cup {nodeId} |-> content]]

setSlot(m, nodeId, content) == [m EXCEPT !.slots = Put(m.slots, nodeId, content)]

getSlot(m, nodeId) == IF nodeId \in DOMAIN m.slots THEN m.slots[nodeId] ELSE <<>>

setMeta(m, key, value) == [m EXCEPT !.meta = Put(m.meta, key, value)]

----------------------------------------------------------------------------
(* Verifiers *)

\* What the external test runner may answer: exit status and stdout+stderr
VitestResults == [passed : BOOLEAN, output : {<<>>, <<"vitest output">>}]

\* The no-test branch of runVerifier, error being what syntaxCheck returned
SyntaxFallback(m, error) ==
    IF error = ""
    THEN setVerification(m, TRUE, <<"Syntax check passed (no tests provided).">>)
    ELSE setVerification(m, FALSE, <<"Syntax error: ", error>>)

\* runVerifier(memory, testCode): testCode = <<>> stands for no test code
runVerifier(m, testCode, vitest) ==
    LET code == m.finalCandidate IN
    IF code = <<>>
    THEN setVerification(m, FALSE, <<"No final candidate to verify.">>)
    ELSE IF testCode = <<>>
    THEN SyntaxFallback(m, syntaxCheck(extractCodeBlock(code)))
    ELSE setVerification(m, vitest.passed, vitest.output)

\* A verifier is CodeVerifier, a verifier that only reads the memory
\* ("Pure": PolicyVerifier, the tests' AlwaysPass / AlwaysFail), or a
\* CompositeVerifier over a list of those.
LeafKinds == {"CodeVerifier", "Pure"}

LeafVerifier(kind) == [kind |-> kind, children |-> <<>>, failFast |-> TRUE]

Composite(children, failFast) ==
    [kind |-> "CompositeVerifier", children |-> children, failFast |-> failFast]

\* What a Pure verifier may answer
PureResults == [passed : BOOLEAN, evidence : {<<>>, <<"evidence">>}]

\* CodeVerifier.verify: runs runVerifier on the memory it is given
\* The result CodeVerifier builds from the memory runVerifier left
CodeVerifierResult(m2) ==
    [memory |-> m2,
     result |-> [passed |-> m2.verificationPassed,
                 evidence |-> IF m2.verificationEvidence # <<>>
                              THEN m2.verificationEvidence
                              ELSE IF m2.verificationPassed
                              THEN <<"Verification passed.">>
                              ELSE <<"Verification failed.">>,
                 verifierName |-> "CodeVerifier"]]

CodeVerifierVerify(m, testCode, vitest) ==
    CodeVerifierResult(runVerifier(m, testCode, vitest))

\* verify of a leaf verifier; pure is the answer of a Pure verifier
LeafVerify(kind, m, testCode, vitest, pure) ==
    IF kind = "CodeVerifier"
    THEN CodeVerifierVerify(m, testCode, vitest)
    ELSE [memory |-> m,
          result |-> [passed |-> pure.passed, evidence |-> pure.evidence,
                      verifierName |-> "Pure"]]

\* The loop of CompositeVerifier.verify from child i on; acc carries the
\* memory, the details so far and allPassed.
RECURSIVE CompositeLoop(_, _, _, _, _, _)

\* The loop that goes on after a failing child whatever failFast says
CompositeCollect_noBreak(v, i, acc, r, testCode, vitest, pures) ==
    CompositeLoop(v, i + 1,
        [memory |-> r.memory,
         details |-> Append(acc.details, r.result),
         invoked |-> Append(acc.invoked, i),
         allPassed |-> acc.allPassed /\ r.result.passed],
        testCode, vitest, pures)

\* The body of the loop once child i has answered r; invoked lists the
\* children called so far
CompositeCollect(v, i, acc, r, testCode, vitest, pures) ==
    LET acc2 == [memory |-> r.memory,
                 details |-> Append(acc.details, r.result),
                 invoked |-> Append(acc.invoked, i),
                 allPassed |-> acc.allPassed /\ r.result.passed]
    IN  IF ~r.result.passed /\ v.failFast
        THEN acc2
        ELSE CompositeLoop(v, i + 1, acc2, testCode, vitest, pures)

CompositeLoop(v, i, acc, testCode, vitest, pures) ==
    IF i > Len(v.children) THEN acc
    ELSE CompositeCollect(v, i, acc,
             LeafVerify(v.children[i], acc.memory, testCode, vitest, pures[i]),
             testCode, vitest, pures)

RECURSIVE CompositeEvidence(_)
CompositeEvidence(details) ==
    IF details = <<>> THEN <<>>
    ELSE LET d == details[1]
             line == <<"[", d.verifierName, "] ",
                       IF d.passed THEN "PASS" ELSE "FAIL", ": ">> \o d.evidence
         IN  IF Len(details) = 1 THEN line
             ELSE line \o <<"\n">> \o CompositeEvidence(Tail(details))

\* The result whose verdict is that of the last child consulted
CompositeResult_lastChild(acc) ==
    [memory |-> acc.memory,
     result |-> [passed |-> acc.details[Len(acc.details)].passed,
                 evidence |-> CompositeEvidence(acc.details),
                 verifierName |-> "CompositeVerifier"],
     details |-> acc.details,
     invoked |-> acc.invoked]

\* The result CompositeVerifier returns after its loop
CompositeResult(acc) ==
    [memory |-> acc.memory,
     result |-> [passed |-> acc.allPassed,
                 evidence |-> CompositeEvidence(acc.details),
                 verifierName |-> "CompositeVerifier"],
     details |-> acc.details,
     invoked |-> acc.invoked]

CompositeVerify(v, m, testCode, vitest, pures) ==
    CompositeResult(CompositeLoop(v, 1,
        [memory |-> m, details |-> <<>>, invoked |-> <<>>, allPassed |-> TRUE],
        testCode, vitest, pures))

\* verifier.verify(memory, ctx) for any verifier of the model
Verify(v, m, testCode, vitest, pures) ==
    IF v.kind = "CompositeVerifier"
    THEN CompositeVerify(v, m, testCode, vitest, pures)
    ELSE LeafVerify(v.kind, m, testCode, vitest, pures[1])

----------------------------------------------------------------------------
(* PolicyVerifier *)

\* The "i" flag of the compiled patterns, over the letters the texts use
ToLower(c) == IF c = "R" THEN "r" ELSE IF c = "M" THEN "m" ELSE c

\* regex.test(text) for a pattern that is a literal: the pattern occurs in
\* the text, letter case aside.  The patterns carry no "g" flag, test keeps
\* no position between calls.
RegexTest(pattern, text) ==
    \E i \in 1..(Len(text) - Len(pattern) + 1) :
        \A j \in 1..Len(pattern) : ToLower(text[i + j - 1]) = ToLower(pattern[j])

getTargetText(target, artifact, task) ==
    IF target = "artifact" THEN artifact
    ELSE IF target = "task" THEN task
    ELSE task \o <<"\n">> \o artifact

\* One built-in rule stands for the built-in deny rules
BUILTIN_RULES ==
    <<[id |-> "cmd-rm-rf", target |-> "artifact", pattern |-> <<"r", "m">>,
       action |-> "deny", category |-> "destructive-cmd", enabled |-> TRUE]>>

\* new PolicyVerifier(customRules): the built-in rules, then the custom ones
PolicyVerifier(customRules) ==
    [kind |-> "PolicyVerifier", rules |-> BUILTIN_RULES \o customRules]

\* The first pass that counts disabled allow rules as well
AllowedCategories_disabledCount(rules, artifact, task) ==
    {rules[i].category : i \in
        {k \in 1..Len(rules) :
            /\ rules[k].action = "allow"
            /\ RegexTest(rules[k].pattern,
                         getTargetText(rules[k].target, artifact, task))}}

\* First pass: the categories of the enabled allow rules that match
AllowedCategories(rules, artifact, task) ==
    {rules[i].category : i \in
        {k \in 1..Len(rules) :
            /\ rules[k].enabled
            /\ rules[k].action = "allow"
            /\ RegexTest(rules[k].pattern,
                         getTargetText(rules[k].target, artifact, task))}}

\* Second pass: the ids of the enabled deny rules that match, in rule order,
\* those of an allowed category left out
RECURSIVE PolicyViolations(_, _, _, _)
PolicyViolations(rules, allowedCategories, artifact, task) ==
    IF rules = <<>> THEN <<>>
    ELSE (IF /\ rules[1].enabled
             /\ rules[1].action = "deny"
             /\ rules[1].category \notin allowedCategories
             /\ RegexTest(rules[1].pattern,
                          getTargetText(rules[1].target, artifact, task))
          THEN <<rules[1].id>>
          ELSE <<>>)
         \o PolicyViolations(Tail(rules), allowedCategories, artifact, task)

\* The result built from the violations
PolicyResult(violations) ==
    IF Len(violations) > 0
    THEN [passed |-> FALSE, evidence |-> <<"Policy violations:">> \o violations,
          verifierName |-> "PolicyVerifier"]
    ELSE [passed |-> TRUE, evidence |-> <<"All policy rules passed.">>,
          verifierName |-> "PolicyVerifier"]

\* PolicyVerifier.verify(memory, context): the context is a map that may
\* hold a task
PolicyVerifierVerify(rules, m, context) ==
    PolicyResult(
        PolicyViolations(rules,
            AllowedCategories(rules, m.finalCandidate,
                IF "task" \in DOMAIN context THEN context.task ELSE m.task),
            m.finalCandidate,
            IF "task" \in DOMAIN context THEN context.task ELSE m.task))

----------------------------------------------------------------------------
(* The durable store.  Every table is the sequence of its rows in id       *)
(* (insertion) order; created_at and updated_at are not read by any        *)
(* operation of the core and are left out.                                 *)

Entities == {"A", "B"}

NoStore == "<no store>"

Null == "<null>"

\* Store.addVerified
addVerified(table, entityId, artifactRef, summary, contentPreview) ==
    Append(table, [entity_id |-> entityId, artifact_ref |-> artifactRef,
                   summary |-> summary,
                   content_preview |-> Slice(contentPreview, 2000)])

\* Store.writeCheckpoint
writeCheckpoint(table, entityId, entityVersion, graphHash, memoryHash, artifactRefs) ==
    Append(table, [entity_id |-> entityId, entity_version |-> entityVersion,
                   graph_hash |-> graphHash, memory_hash |-> memoryHash,
                   artifact_refs |-> artifactRefs])

\* recordOutcome
recordOutcome(table, entityId, verificationPassed, taskRef) ==
    Append(table, [entity_id |-> entityId, task_ref |-> taskRef,
                   verification_passed |-> IF verificationPassed THEN 1 ELSE 0])

\* auditLog
auditLog(table, entityId, eventType, detail) ==
    Append(table, [entity_id |-> entityId, event_type |-> eventType,
                   detail |-> detail])

\* getGovernanceValue: the value, or Null when the row is absent
getGovernanceValue(gs, entityId, key) ==
    IF <<entityId, key>> \in DOMAIN gs THEN gs[<<entityId, key>>] ELSE Null

\* The write keyed by key alone: it replaces the value of every entity
setGovernanceValue_allEntities(gs, entityId, key, value) ==
    [k \in (DOMAIN gs) \cup {<<e, key>> : e \in {"A", "B"}} |->
        IF k[2] = key THEN value ELSE gs[k]]

\* setGovernanceValue: INSERT OR REPLACE on the primary key (entity_id, key)
setGovernanceValue(gs, entityId, key, value) ==
    [k \in (DOMAIN gs) \cup {<<entityId, key>>} |->
        IF k = <<entityId, key>> THEN value ELSE gs[k]]

\* Rows of a table that belong to one entity, in id order
RECURSIVE RowsOf(_, _)
RowsOf(table, entityId) ==
    IF table = <<>> THEN <<>>
    ELSE IF table[1].entity_id = entityId
    THEN <<table[1]>> \o RowsOf(Tail(table), entityId)
    ELSE RowsOf(Tail(table), entityId)

Reverse(s) == [i \in 1..Len(s) |-> s[Len(s) + 1 - i]]

\* The query without its WHERE entity_id = ? clause
getRecentVerified_allEntities(table, entityId, k) ==
    LET rows == Reverse(table) IN SubSeq(rows, 1, Min(Len(rows), k))

\* Store.getRecentVerified(k): ORDER BY id DESC LIMIT k
getRecentVerified(table, entityId, k) ==
    LET rows == Reverse(RowsOf(table, entityId)) IN SubSeq(rows, 1, Min(Len(rows), k))

\* sha256 is taken as injective: the digest is the tagged input
sha256(data) == <<"sha256", data>>

hashGraph(graphConfig) == sha256(graphConfig)

\* hashMemory sorts the refs before hashing; every caller of the model
\* passes at most one ref
hashMemory(verifiedRefs) == sha256(verifiedRefs)

----------------------------------------------------------------------------
(* Signing *)

\* An artifact text of the handoff: the character ch written n times, so
\* that texts longer than the payload limit can be told from their prefix
Repeated(ch, n) == [ch |-> IF n = 0 THEN "" ELSE ch, n |-> n]

\* String.prototype.toUpperCase over the letters the entity ids use
UpperChar(c) == IF c = "a" THEN "A" ELSE IF c = "b" THEN "B" ELSE c

toUpperCase(id) == [i \in 1..Len(id) |-> UpperChar(id[i])]

\* entityId.replace(/[^a-zA-Z0-9_-]/g, "_")
SafeChars == {"a", "b", "A", "B", "_", "-"}

safeId(id) == [i \in 1..Len(id) |-> IF id[i] \in SafeChars THEN id[i] ELSE "_"]

MIN_KEY_BYTES == 16

\* process.env[name] ?? process.env["MOLTBLOCK_SIGNING_KEY"] ?? ""
EnvKey(env, entityId) ==
    LET name == <<"MOLTBLOCK_SIGNING_KEY_">> \o toUpperCase(entityId) IN
    IF name \in DOMAIN env.vars THEN env.vars[name]
    ELSE IF <<"MOLTBLOCK_SIGNING_KEY">> \in DOMAIN env.vars
    THEN env.vars[<<"MOLTBLOCK_SIGNING_KEY">>]
    ELSE <<>>

NoKey == [kind |-> "none", secret |-> <<>>, info |-> <<>>]

\* deriveKey: HKDF is taken as injective in (secret, info)
deriveKey(secret, entityId) == [kind |-> "hkdf", secret |-> secret, info |-> entityId]

\* The secret getSecret returns when no key is set in the environment: the
\* key kept in the file named after safeId (a random key made on first use
\* and read back afterwards: one key per file), or the weak fallback
DevSecret(env, entityId) ==
    IF env.production THEN [threw |-> TRUE, key |-> NoKey]
    ELSE IF env.fsAvailable
    THEN [threw |-> FALSE,
          key |-> [kind |-> "dev-file", secret |-> <<>>, info |-> safeId(entityId)]]
    ELSE IF ~env.insecureDevSigning THEN [threw |-> TRUE, key |-> NoKey]
    ELSE [threw |-> FALSE,
          key |-> [kind |-> "dev-only-insecure-key", secret |-> <<>>,
                   info |-> entityId]]

\* The key of the given length check, envKey being what the environment holds
EnvSecret(envKey, entityId) ==
    IF Len(envKey) < MIN_KEY_BYTES THEN [threw |-> TRUE, key |-> NoKey]
    ELSE [threw |-> FALSE, key |-> deriveKey(envKey, entityId)]

getSecret(env, entityId) ==
    IF EnvKey(env, entityId) = <<>> THEN DevSecret(env, entityId)
    ELSE EnvSecret(EnvKey(env, entityId), entityId)

\* The bytes of an HMAC-SHA256: 32 bytes, taken as injective in (key, data)
Hmac(key, data) == [len |-> 32, key |-> key, data |-> data]

\* A signature string: the bytes its base64 text decodes to, and the white
\* space written after it, which the decoder skips
Base64(bytes) == [body |-> bytes, trail |-> ""]

\* Buffer.from(text, "base64")
Base64Decode(text) == text.body

\* The signature signArtifact returns once getSecret has answered
SignWith(secret, payload) ==
    IF secret.threw THEN [threw |-> TRUE, value |-> Base64(Hmac(NoKey, payload))]
    ELSE [threw |-> FALSE, value |-> Base64(Hmac(secret.key, payload))]

signArtifact(env, entityId, payload) == SignWith(getSecret(env, entityId), payload)

\* crypto.timingSafeEqual: a RangeError when the lengths differ
timingSafeEqual(a, b) ==
    IF a.len # b.len THEN [threw |-> TRUE, value |-> FALSE]
    ELSE [threw |-> FALSE, value |-> a = b]

\* The try block of verifyArtifact, expected being what signArtifact answered
VerifyAgainst(expected, signatureB64) ==
    IF expected.threw THEN FALSE
    ELSE timingSafeEqual(Base64Decode(expected.value),
                         Base64Decode(signatureB64)).value

verifyArtifact(env, entityId, payload, signatureB64) ==
    VerifyAgainst(signArtifact(env, entityId, payload), signatureB64)

\* artifactHash: sha256 of the content, in hex
artifactHash(payload) == sha256(payload)

----------------------------------------------------------------------------
(* Handoff: the inbox table, sendArtifact and receiveArtifacts *)

MAX_PAYLOAD_TEXT == 100000

DEFAULT_INBOX_LIMIT == 20

\* String.prototype.slice(0, n) of a repeated character
SliceRepeated(text, n) == IF text.n <= n THEN text ELSE Repeated(text.ch, n)

\* The empty string, as a signature
EmptySignature == Base64([len |-> 0, key |-> NoKey, data |-> Repeated("", 0)])

\* putInbox: store is the recipient
putInbox(table, entityId, fromEntityId, artifactRef, payloadHash, signature, payloadText) ==
    Append(table, [entity_id |-> entityId, from_entity_id |-> fromEntityId,
                   artifact_ref |-> artifactRef, payload_text |-> payloadText,
                   payload_hash |-> payloadHash, signature |-> signature])

\* getInbox(store, limit): ORDER BY id DESC LIMIT limit
getInbox(table, entityId, limit) ==
    LET rows == Reverse(RowsOf(table, entityId)) IN
    SubSeq(rows, 1, Min(Len(rows), limit))

\* sendArtifact once the signature is computed; the call throws when
\* signArtifact does
SendSigned(table, entityId, senderEntityId, artifactContent, signed) ==
    IF signed.threw THEN table
    ELSE putInbox(table, entityId, senderEntityId,
                  <<"artifact_", senderEntityId, "_", ToString(now)>>,
                  artifactHash(artifactContent), signed.value,
                  SliceRepeated(artifactContent, MAX_PAYLOAD_TEXT))

\* The entry receiveArtifacts returns for one inbox row
ReceivedArtifact(env, e, verify) ==
    [from_entity_id |-> e.from_entity_id,
     artifact_ref |-> e.artifact_ref,
     payload_text |-> e.payload_text,
     verified |-> IF verify /\ e.payload_text.n > 0 /\ e.signature # EmptySignature
                  THEN verifyArtifact(env, e.from_entity_id, e.payload_text,
                                      e.signature)
                  ELSE TRUE]

receiveArtifacts(table, env, entityId, limit, verify) ==
    LET entries == getInbox(table, entityId, limit) IN
    [i \in 1..Len(entries) |-> ReceivedArtifact(env, entries[i], verify)]

----------------------------------------------------------------------------
(* AgentGraph *)

Node(id, role) == [id |-> id, role |-> role, binding |-> role]

Edge(from, to) == [from |-> from, to |-> to]

SeqToSet(s) == {s[i] : i \in 1..Len(s)}

\* Keep the elements of a sequence that satisfy a test, in order
RECURSIVE FilterSeq(_, _)
FilterSeq(s, keep) ==
    IF s = <<>> THEN <<>>
    ELSE IF Head(s) \in keep THEN <<Head(s)>> \o FilterSeq(Tail(s), keep)
    ELSE FilterSeq(Tail(s), keep)

\* The ids of the nodes in first-occurrence order: [...new Set(ids)]
RECURSIVE Dedup(_, _)
Dedup(s, seen) ==
    IF s = <<>> THEN <<>>
    ELSE IF Head(s) \in seen THEN Dedup(Tail(s), seen)
    ELSE <<Head(s)>> \o Dedup(Tail(s), seen \cup {Head(s)})

NodeIdSeq(g) == Dedup([i \in 1..Len(g.nodes) |-> g.nodes[i].id], {})

EdgeIdx(g) == 1..Len(g.edges)

predecessors(g, nodeId) ==
    LET idx == FilterSeq([i \in 1..Len(g.edges) |-> i],
                         {i \in EdgeIdx(g) : g.edges[i].to = nodeId})
    IN  [j \in 1..Len(idx) |-> g.edges[idx[j]].from]

successors(g, nodeId) ==
    LET idx == FilterSeq([i \in 1..Len(g.edges) |-> i],
                         {i \in EdgeIdx(g) : g.edges[i].from = nodeId})
    IN  [j \in 1..Len(idx) |-> g.edges[idx[j]].to]

\* The while loop of topologicalOrder
RECURSIVE TopoLoop(_, _, _)
TopoLoop(g, order, inDegree) ==
    LET ids == NodeIdSeq(g)
        ready == FilterSeq(ids, {nid \in SeqToSet(ids) :
                                    nid \notin SeqToSet(order) /\ inDegree[nid] = 0})
    IN  IF Len(order) >= Len(ids) \/ ready = <<>>
        THEN order
        ELSE TopoLoop(g, order \o ready,
                 [s \in DOMAIN inDegree |->
                     inDegree[s] - Cardinality({i \in EdgeIdx(g) :
                                         g.edges[i].from \in SeqToSet(ready)
                                         /\ g.edges[i].to = s})])

\* The node ids as the graph lists them
topologicalOrder_asListed(g) == NodeIdSeq(g)

topologicalOrder(g) ==
    LET ids == SeqToSet(NodeIdSeq(g))
        inDegree == [nid \in ids |->
                        Cardinality({i \in EdgeIdx(g) : g.edges[i].to = nid})]
    IN  TopoLoop(g, <<>>, inDegree)

\* The first node without outgoing edges, however many there are
getFinalNodeId_firstCandidate(g) ==
    IF g.final_node # Null /\ g.final_node # ""
    THEN g.final_node
    ELSE LET idx == FilterSeq([i \in 1..Len(g.nodes) |-> i],
                        {i \in 1..Len(g.nodes) : successors(g, g.nodes[i].id) = <<>>})
         IN  IF Len(idx) >= 1 THEN g.nodes[idx[1]].id ELSE Null

getFinalNodeId(g) ==
    IF g.final_node # Null /\ g.final_node # ""
    THEN g.final_node
    ELSE LET idx == FilterSeq([i \in 1..Len(g.nodes) |-> i],
                        {i \in 1..Len(g.nodes) : successors(g, g.nodes[i].id) = <<>>})
         IN  IF Len(idx) = 1 THEN g.nodes[idx[1]].id ELSE Null

\* The graphs runs are given: the three-role pipeline of the tests, the
\* same with a verifier node at the end, and a fork with two sinks.
PipelineGraph ==
    [nodes |-> <<Node("generator", "generator"), Node("critic", "critic"),
                 Node("judge", "judge")>>,
     edges |-> <<Edge("generator", "critic"), Edge("generator", "judge"),
                 Edge("critic", "judge")>>,
     final_node |-> Null]

VerifierNodeGraph ==
    [nodes |-> <<Node("generator", "generator"), Node("judge", "judge"),
                 Node("verifier", "verifier")>>,
     edges |-> <<Edge("generator", "judge"), Edge("judge", "verifier")>>,
     final_node |-> "judge"]

ForkGraph ==
    [nodes |-> <<Node("generator", "generator"), Node("critic", "critic"),
                 Node("judge", "judge")>>,
     edges |-> <<Edge("generator", "critic"), Edge("generator", "judge")>>,
     final_node |-> Null]

Graphs == {PipelineGraph, VerifierNodeGraph, ForkGraph}

----------------------------------------------------------------------------
(* Inputs of a run *)

MIN_TASK_LENGTH == 3
MAX_TASK_LENGTH == 50000

ControlChars == {"<nul>", "<ctl>"}

\* validateTask(task).valid
validateTask(task) ==
    /\ Len(Trim(task)) # 0
    /\ Len(Trim(task)) >= MIN_TASK_LENGTH
    /\ Len(task) <= MAX_TASK_LENGTH
    /\ \A i \in 1..Len(task) : task[i] \notin ControlChars

Tasks == {<<>>, <<"a", "d", "d">>}

\* Only Entity.run looks at the task it is given
TasksOf(kind) == IF kind = "Entity" THEN Tasks ELSE {<<"a", "d", "d">>}

TestCodes == {<<>>, <<"t">>}

\* What a model backend may answer, before the role trims it: nothing,
\* balanced code, unbalanced code.  The critic's answer is read by no
\* operation of the model, one value stands for it.
RawOutputs == {<<>>, <<"{", "}", "\n">>, <<"{">>}

CritiqueOutputs == {<<" ", "o", "k">>}

OutputsOf(role) == IF role = "critic" THEN CritiqueOutputs ELSE RawOutputs

ErrMsgs == {"timeout"}

NoVerifier == [kind |-> "none", children |-> <<>>, failFast |-> TRUE]

MaxChildren == 2

Verifiers ==
    {LeafVerifier("CodeVerifier"), LeafVerifier("Pure"),
     Composite(<<"CodeVerifier", "Pure">>, TRUE),
     Composite(<<"Pure", "CodeVerifier">>, FALSE)}

RunKinds == {"GraphRunner", "CodeEntity", "Entity"}

\* CodeEntity always uses runVerifier; GraphRunner does when it is given no
\* verifier; Entity always has one (PolicyVerifier by default).
VerifiersOf(kind) ==
    IF kind = "CodeEntity" THEN {NoVerifier}
    ELSE IF kind = "Entity" THEN Verifiers
    ELSE {NoVerifier, LeafVerifier("Pure"),
          Composite(<<"CodeVerifier", "Pure">>, TRUE)}

GraphsOf(kind) == IF kind = "GraphRunner" THEN Graphs ELSE {PipelineGraph}

\* The objects a run can be called on, as their constructors leave them,
\* with the options their caller passes to run: one behaviour follows one
\* object and one caller, the behaviours cover every combination.
Runners ==
    {[kind |-> kind, verifier |-> v, graph |-> g, testCode |-> tc,
      writeCheckpointAfter |-> wca] :
        kind \in RunKinds, v \in Verifiers \cup {NoVerifier}, g \in Graphs,
        tc \in TestCodes, wca \in BOOLEAN}

ValidRunner(r) == r.verifier \in VerifiersOf(r.kind) /\ r.graph \in GraphsOf(r.kind)

\* The stores a run may be given
RunStores == {NoStore, "A"}

RoleNames == {"generator", "critic", "judge", "router"}

----------------------------------------------------------------------------
(* A run: GraphRunner.run, CodeEntity.run, Entity.run *)

IdleRun ==
    [pc |-> "idle", store |-> NoStore, task |-> <<>>,
     testCode |-> <<>>, entityVersion |-> "0.2.0", writeCheckpointAfter |-> FALSE,
     continueOnError |-> FALSE,
     order |-> <<>>, idx |-> 0,
     verdict |-> "none", artifactRef |-> <<>>,
     base |-> [outcomes |-> 0, verified |-> 0, checkpoints |-> 0]]

\* String.prototype.join(sep) over a list of texts
RECURSIVE JoinWith(_, _)
JoinWith(parts, sep) ==
    IF parts = <<>> THEN <<>>
    ELSE IF Len(parts) = 1 THEN parts[1]
    ELSE parts[1] \o sep \o JoinWith(Tail(parts), sep)

RECURSIVE ContextParts(_)
ContextParts(recent) ==
    IF recent = <<>> THEN <<>>
    ELSE LET e == recent[1] IN
         (IF e.content_preview # <<>> THEN <<Slice(e.content_preview, 500)>>
          ELSE IF e.summary # <<>> THEN <<e.summary>>
          ELSE <<>>) \o ContextParts(Tail(recent))

\* The long-term context a run injects from the store it is given
LongTermContext(store) ==
    IF store = NoStore THEN <<>>
    ELSE JoinWith(ContextParts(getRecentVerified(verified_memory, store, 5)),
                  <<"\n---\n">>)

\* The run rejects: nothing is returned
Throw(error) ==
    /\ run' = [run EXCEPT !.pc = "threw"]
    /\ ret' = [op |-> "run", threw |-> TRUE, error |-> error]

\* run(task, options): continueOnError is what the caller put under that
\* name in the options; no run loop destructures it
StartRunOptions(store, task, continueOnError) ==
    /\ run.pc \in {"idle", "returned", "threw"}
    /\ calls.runs < MaxRuns
    /\ task \in TasksOf(runner.kind)
    /\ calls' = [calls EXCEPT !.runs = @ + 1]
    /\ IF runner.kind = "Entity" /\ ~validateTask(task)
       THEN /\ run' = [IdleRun EXCEPT !.pc = "threw",
                               !.continueOnError = continueOnError,
                               !.base = [outcomes |-> Len(outcomes),
                                         verified |-> Len(verified_memory),
                                         checkpoints |-> Len(checkpoints)]]
            /\ ret' = [op |-> "run", threw |-> TRUE, error |-> "Invalid task"]
            /\ memory' = NewWorkingMemory
       ELSE /\ memory' = [setTask(NewWorkingMemory, task)
                             EXCEPT !.longTermContext = LongTermContext(store)]
            /\ run' = [IdleRun EXCEPT
                  !.pc = IF runner.kind = "GraphRunner" THEN "nodes"
                         ELSE "generator",
                  !.store = store, !.task = task, !.testCode = runner.testCode,
                  !.entityVersion = IF runner.kind = "Entity" THEN "0.5.0"
                                    ELSE "0.2.0",
                  !.writeCheckpointAfter = runner.writeCheckpointAfter,
                  !.continueOnError = continueOnError,
                  !.order = IF runner.kind = "GraphRunner"
                            THEN topologicalOrder(runner.graph) ELSE <<>>,
                  !.idx = 1,
                  !.base = [outcomes |-> Len(outcomes),
                            verified |-> Len(verified_memory),
                            checkpoints |-> Len(checkpoints)]]
            /\ ret' = [op |-> "run-started"]
    /\ UNCHANGED <<now, storeVars, runner, writers>>

\* run called without continueOnError
StartRun(store, task) == StartRunOptions(store, task, FALSE)

\* runGenerator inside CodeEntity.run / Entity.run
Generator ==
    /\ run.pc = "generator"
    /\ \/ \E raw \in RawOutputs :
            /\ memory' = setDraft(memory, Trim(raw))
            /\ run' = [run EXCEPT !.pc = "critic"]
            /\ UNCHANGED ret
       \/ \E err \in ErrMsgs :
            IF runner.kind = "Entity"
            THEN /\ memory' = setVerification(
                                 setMeta(memory, "generatorError", <<err>>),
                                 FALSE, <<"Generator failed: ", err>>)
                 /\ run' = [run EXCEPT !.pc = "returned"]
                 /\ ret' = [op |-> "run", threw |-> FALSE]
            ELSE Throw(err) /\ UNCHANGED memory
    /\ UNCHANGED <<now, storeVars, runner, writers, calls>>

\* runCritic inside CodeEntity.run / Entity.run
Critic ==
    /\ run.pc = "critic"
    /\ \/ \E raw \in CritiqueOutputs :
            /\ memory' = setCritique(memory, Trim(raw))
            /\ run' = [run EXCEPT !.pc = "judge"]
            /\ UNCHANGED ret
       \/ \E err \in ErrMsgs :
            IF runner.kind = "Entity"
            THEN /\ memory' = setCritique(setMeta(memory, "criticError", <<err>>), <<>>)
                 /\ run' = [run EXCEPT !.pc = "judge"]
                 /\ UNCHANGED ret
            ELSE Throw(err) /\ UNCHANGED memory
    /\ UNCHANGED <<now, storeVars, runner, writers, calls>>

\* runJudge inside CodeEntity.run / Entity.run
Judge ==
    /\ run.pc = "judge"
    /\ \/ \E raw \in RawOutputs :
            /\ memory' = setFinalCandidate(memory, Trim(raw))
            /\ run' = [run EXCEPT !.pc = "verify"]
            /\ UNCHANGED ret
       \/ \E err \in ErrMsgs :
            IF runner.kind = "Entity"
            THEN /\ memory' = setFinalCandidate(
                                 setMeta(memory, "judgeError", <<err>>), memory.draft)
                 /\ run' = [run EXCEPT !.pc = "verify"]
                 /\ UNCHANGED ret
            ELSE Throw(err) /\ UNCHANGED memory
    /\ UNCHANGED <<now, storeVars, runner, writers, calls>>

\* graph.nodes.find((n) => n.id === nodeId): the first node with that id
FindNode(g, nodeId) ==
    LET idx == {i \in 1..Len(g.nodes) : g.nodes[i].id = nodeId} IN
    g.nodes[CHOOSE i \in idx : \A j \in idx : i <= j]

\* The iteration that records a failed outcome before it rejects
RunNode_recordsFailure ==
    /\ run.pc = "nodes"
    /\ run.idx <= Len(run.order)
    /\ LET nodeId == run.order[run.idx]
           node == FindNode(runner.graph, nodeId)
       IN  IF node.role = "verifier"
           THEN /\ run' = [run EXCEPT !.idx = @ + 1]
                /\ UNCHANGED <<memory, ret, outcomes>>
           ELSE IF node.role \notin RoleNames
           THEN Throw("Unknown role for graph") /\ UNCHANGED <<memory, outcomes>>
           ELSE \/ \E raw \in OutputsOf(node.role) :
                     /\ memory' = setSlot(memory, nodeId, Trim(raw))
                     /\ run' = [run EXCEPT !.idx = @ + 1]
                     /\ UNCHANGED <<ret, outcomes>>
                \/ \E err \in ErrMsgs :
                     /\ Throw(err)
                     /\ outcomes' = IF run.store # NoStore
                                    THEN recordOutcome(outcomes, run.store, FALSE,
                                                       Slice(run.task, 100))
                                    ELSE outcomes
                     /\ UNCHANGED memory
    /\ UNCHANGED <<now, verified_memory, checkpoints, strategies, audit_log,
                   governance_state, inbox, runner, writers, calls>>

\* One iteration of the node loop of GraphRunner.run
RunNode ==
    /\ run.pc = "nodes"
    /\ run.idx <= Len(run.order)
    /\ LET nodeId == run.order[run.idx]
           node == FindNode(runner.graph, nodeId)
       IN  IF node.role = "verifier"
           THEN /\ run' = [run EXCEPT !.idx = @ + 1]
                /\ UNCHANGED <<memory, ret>>
           ELSE IF node.role \notin RoleNames
           THEN Throw("Unknown role for graph") /\ UNCHANGED memory
           ELSE \/ \E raw \in OutputsOf(node.role) :
                     /\ memory' = setSlot(memory, nodeId, Trim(raw))
                     /\ run' = [run EXCEPT !.idx = @ + 1]
                     /\ UNCHANGED ret
                \/ \E err \in ErrMsgs : Throw(err) /\ UNCHANGED memory
    /\ UNCHANGED <<now, storeVars, runner, writers, calls>>

\* After the node loop: the final candidate is the final node's slot
SetFinal ==
    /\ run.pc = "nodes"
    /\ run.idx > Len(run.order)
    /\ LET finalId == getFinalNodeId(runner.graph) IN
       memory' = IF finalId # Null /\ finalId # ""
                 THEN [memory EXCEPT !.finalCandidate = getSlot(memory, finalId)]
                 ELSE memory
    /\ run' = [run EXCEPT !.pc = "verify"]
    /\ UNCHANGED <<now, storeVars, runner, writers, ret, calls>>

\* memory.setVerification(result.passed, result.evidence) on the memory
\* the verifier was given
SetVerified(r) == setVerification(r.memory, r.result.passed, r.result.evidence)

\* The verification step of the three run loops
RunVerification ==
    /\ run.pc = "verify"
    /\ \E vitest \in VitestResults, pures \in [1..MaxChildren -> PureResults] :
          IF runner.verifier.kind = "none"
          THEN /\ memory' = runVerifier(memory, run.testCode, vitest)
               /\ run' = [run EXCEPT !.pc = "outcome",
                             !.verdict = IF memory'.verificationPassed
                                         THEN "passed" ELSE "failed"]
          ELSE /\ memory' = SetVerified(Verify(runner.verifier, memory,
                                               run.testCode, vitest, pures))
               /\ run' = [run EXCEPT !.pc = "outcome",
                             !.verdict = IF memory'.verificationPassed
                                         THEN "passed" ELSE "failed"]
    /\ UNCHANGED <<now, storeVars, runner, writers, ret, calls>>

\* The outcome is not recorded
RecordOutcome_skipped ==
    /\ run.pc = "outcome"
    /\ run' = [run EXCEPT !.pc = "admit"]
    /\ UNCHANGED <<now, storeVars, runner, memory, writers, ret, calls>>

\* if (store) recordOutcome(...)
RecordOutcome ==
    /\ run.pc = "outcome"
    /\ outcomes' = IF run.store # NoStore
                   THEN recordOutcome(outcomes, run.store, memory.verificationPassed,
                                      Slice(run.task, 100))
                   ELSE outcomes
    /\ run' = [run EXCEPT !.pc = "admit"]
    /\ UNCHANGED <<now, verified_memory, checkpoints, strategies, audit_log,
                   governance_state, inbox, runner, memory, writers, ret, calls>>

\* Whether the run admits its artifact to verified memory
Admits == run.store # NoStore /\ memory.verificationPassed
          /\ memory.authoritativeArtifact # <<>>

\* Admission that does not look at verificationPassed
AdmitVerified_ungated ==
    /\ run.pc = "admit"
    /\ IF run.store # NoStore /\ memory.authoritativeArtifact # <<>>
       THEN LET artifactRef == <<"artifact_", ToString(now)>> IN
            /\ verified_memory' =
                   addVerified(verified_memory, run.store, artifactRef,
                       <<"Verified artifact (",
                         ToString(Len(memory.authoritativeArtifact)), " chars)">>,
                       Slice(memory.authoritativeArtifact, 2000))
            /\ run' = [run EXCEPT !.pc = "checkpoint", !.artifactRef = artifactRef]
            /\ UNCHANGED ret
       ELSE /\ run' = [run EXCEPT !.pc = "returned"]
            /\ ret' = [op |-> "run", threw |-> FALSE]
            /\ UNCHANGED verified_memory
    /\ UNCHANGED <<now, checkpoints, outcomes, strategies, audit_log,
                   governance_state, inbox, runner, memory, writers, calls>>

\* if (store && verificationPassed && authoritativeArtifact) addVerified(...)
AdmitVerified ==
    /\ run.pc = "admit"
    /\ IF Admits
       THEN LET artifactRef == <<"artifact_", ToString(now)>> IN
            /\ verified_memory' =
                   addVerified(verified_memory, run.store, artifactRef,
                       <<"Verified artifact (",
                         ToString(Len(memory.authoritativeArtifact)), " chars)">>,
                       Slice(memory.authoritativeArtifact, 2000))
            /\ run' = [run EXCEPT !.pc = "checkpoint", !.artifactRef = artifactRef]
            /\ UNCHANGED ret
       ELSE /\ run' = [run EXCEPT !.pc = "returned"]
            /\ ret' = [op |-> "run", threw |-> FALSE]
            /\ UNCHANGED verified_memory
    /\ UNCHANGED <<now, checkpoints, outcomes, strategies, audit_log,
                   governance_state, inbox, runner, memory, writers, calls>>

\* The graph hash each run loop puts in its checkpoint
GraphHashOf(r) ==
    IF r.kind = "GraphRunner" THEN hashGraph(r.graph)
    ELSE IF r.kind = "CodeEntity" THEN <<"fixed-code-entity", r.graph>>
    ELSE <<"entity-general", r.graph>>

\* A checkpoint written whether or not it was asked for
WriteCheckpoint_always ==
    /\ run.pc = "checkpoint"
    /\ checkpoints' =
          LET refs == <<run.artifactRef>> IN
          writeCheckpoint(checkpoints, run.store, run.entityVersion,
                          GraphHashOf(runner), hashMemory(refs), refs)
    /\ run' = [run EXCEPT !.pc = "returned"]
    /\ ret' = [op |-> "run", threw |-> FALSE]
    /\ UNCHANGED <<now, verified_memory, outcomes, strategies, audit_log,
                   governance_state, inbox, runner, memory, writers, calls>>

\* if (writeCheckpointAfter) store.writeCheckpoint(...); return memory
WriteCheckpoint ==
    /\ run.pc = "checkpoint"
    /\ checkpoints' =
          IF run.writeCheckpointAfter
          THEN LET refs == <<run.artifactRef>> IN
               writeCheckpoint(checkpoints, run.store, run.entityVersion,
                               GraphHashOf(runner), hashMemory(refs), refs)
          ELSE checkpoints
    /\ run' = [run EXCEPT !.pc = "returned"]
    /\ ret' = [op |-> "run", threw |-> FALSE]
    /\ UNCHANGED <<now, verified_memory, outcomes, strategies, audit_log,
                   governance_state, inbox, runner, memory, writers, calls>>

\* Time passes
Tick ==
    /\ now < MaxTime
    /\ now' = now + 1
    /\ UNCHANGED <<storeVars, runner, memory, run, writers, ret, calls>>

----------------------------------------------------------------------------
(* Initial state: an empty store, no call made *)

\* Two connections to the same database, each of which may be inside
\* setStrategy
Writers == {"w1", "w2"}

IdleWriter ==
    [pc |-> "idle", entity |-> "A", role |-> "generator", content |-> <<>>,
     maxVersion |-> 0]

\* A fresh store, a fresh memory, nothing called yet
InitState ==
    /\ now = 0
    /\ verified_memory = <<>>
    /\ checkpoints = <<>>
    /\ outcomes = <<>>
    /\ strategies = <<>>
    /\ audit_log = <<>>
    /\ governance_state = [k \in {} |-> ""]
    /\ inbox = <<>>
    /\ memory = NewWorkingMemory
    /\ run = IdleRun
    /\ writers = [w \in Writers |-> IdleWriter]
    /\ ret = [op |-> "none"]
    /\ calls = [runs |-> 0, gov |-> 0]

Init == InitState /\ runner \in {r \in Runners : ValidRunner(r)}

(* Runs against the store *)
NextRun ==
    \/ \E store \in RunStores, task \in Tasks : StartRun(store, task)
    \/ Generator
    \/ Critic
    \/ Judge
    \/ RunNode
    \/ SetFinal
    \/ RunVerification
    \/ RecordOutcome
    \/ AdmitVerified
    \/ WriteCheckpoint
    \/ Tick

SpecRun == Init /\ [][NextRun]_vars

(* GraphRunner.run called with continueOnError: true *)
InitGraphRunner == Init /\ runner.kind = "GraphRunner"

NextContinueOnError ==
    \/ \E store \in RunStores, task \in TasksOf("GraphRunner") :
          StartRunOptions(store, task, TRUE)
    \/ RunNode
    \/ SetFinal
    \/ RunVerification
    \/ RecordOutcome
    \/ AdmitVerified
    \/ WriteCheckpoint
    \/ Tick

SpecContinueOnError == InitGraphRunner /\ [][NextContinueOnError]_vars

----------------------------------------------------------------------------
(* Operations on one WorkingMemory instance, in any order *)

SlotIds == {"generator", "judge"}

Texts == {Trim(raw) : raw \in RawOutputs}

Evidences == {<<>>, <<"evidence">>}

WMVars == <<now, storeVars, runner, run, writers, calls>>

WMSetTask(task) ==
    /\ memory' = setTask(memory, task)
    /\ ret' = [op |-> "setTask"]
    /\ UNCHANGED WMVars

WMSetDraft(draft) ==
    /\ memory' = setDraft(memory, draft)
    /\ ret' = [op |-> "setDraft"]
    /\ UNCHANGED WMVars

WMSetCritique(critique) ==
    /\ memory' = setCritique(memory, critique)
    /\ ret' = [op |-> "setCritique"]
    /\ UNCHANGED WMVars

WMSetFinalCandidate(candidate) ==
    /\ memory' = setFinalCandidate(memory, candidate)
    /\ ret' = [op |-> "setFinalCandidate"]
    /\ UNCHANGED WMVars

WMSetVerification(passed, evidence) ==
    /\ memory' = setVerification(memory, passed, evidence)
    /\ ret' = [op |-> "setVerification", passed |-> passed]
    /\ UNCHANGED WMVars

WMSetSlot(nodeId, content) ==
    /\ memory' = setSlot(memory, nodeId, content)
    /\ ret' = [op |-> "setSlot"]
    /\ UNCHANGED WMVars

\* One runner stands for all where the runner plays no part
DefaultRunner ==
    [kind |-> "CodeEntity", verifier |-> NoVerifier, graph |-> PipelineGraph,
     testCode |-> <<>>, writeCheckpointAfter |-> FALSE]

InitDefault == Init /\ runner = DefaultRunner

NextWM ==
    \/ \E task \in {<<"a", "d", "d">>} : WMSetTask(task)
    \/ \E draft \in {<<"{">>} : WMSetDraft(draft)
    \/ \E critique \in {<<"o", "k">>} : WMSetCritique(critique)
    \/ \E candidate \in Texts : WMSetFinalCandidate(candidate)
    \/ \E passed \in BOOLEAN, evidence \in Evidences :
          WMSetVerification(passed, evidence)
    \/ \E nodeId \in SlotIds, content \in Texts : WMSetSlot(nodeId, content)

SpecWM == InitDefault /\ [][NextWM]_vars

----------------------------------------------------------------------------
(* PolicyVerifier.verify on memories and rule lists of every shape *)

PolicyTargets == {"artifact", "task", "both"}

PolicyCategories == {"destructive-cmd", "test"}

\* The rules a caller may add
PolicyRules ==
    [id : {"custom"}, target : PolicyTargets, pattern : {<<"r", "m">>},
     action : {"deny", "allow"}, category : PolicyCategories, enabled : BOOLEAN]

CustomRuleLists == UNION {[1..n -> PolicyRules] : n \in 0..MaxRules}

PolicyTexts == {<<"R", "M">>, <<"l", "s">>}

\* The context of a verify call: with a task, or without
PolicyContexts == {EmptyMap, [task |-> <<"R", "M">>]}

\* One behaviour follows one PolicyVerifier
InitPolicy ==
    /\ InitState
    /\ runner \in {[DefaultRunner EXCEPT !.verifier = PolicyVerifier(customRules)] :
                       customRules \in CustomRuleLists}

PolicyVerify(context) ==
    /\ ret' = [op |-> "PolicyVerifier.verify", context |-> context,
               result |-> PolicyVerifierVerify(runner.verifier.rules, memory, context)]
    /\ UNCHANGED <<memory, WMVars>>

NextPolicy ==
    \/ \E task \in {<<"l", "s">>} : WMSetTask(task)
    \/ \E candidate \in PolicyTexts : WMSetFinalCandidate(candidate)
    \/ \E context \in PolicyContexts : PolicyVerify(context)

SpecPolicy == InitPolicy /\ [][NextPolicy]_vars

----------------------------------------------------------------------------
(* CompositeVerifier.verify over every list of children, in both modes *)

\* The lists of children a CompositeVerifier may be built on: the
\* constructor rejects the empty list
ChildLists == UNION {[1..n -> LeafKinds] : n \in 1..MaxChildren}

\* A CompositeVerifier whose Pure children are verifiers of a fixed answer,
\* as the always-passing and always-failing verifiers of the tests are:
\* answers[i] is what child i returns if it is a Pure one
CompositeOf(children, failFast, answers) ==
    [kind |-> "CompositeVerifier", children |-> children, failFast |-> failFast,
     answers |-> answers]

\* One behaviour follows one CompositeVerifier and one test code
InitComposite ==
    /\ InitState
    /\ runner \in {[DefaultRunner EXCEPT
                         !.verifier = CompositeOf(children, failFast, answers),
                         !.testCode = tc] :
                       children \in ChildLists, failFast \in BOOLEAN,
                       answers \in [1..MaxChildren -> PureResults],
                       tc \in TestCodes}

\* What the caller of verify gets back, and the memory the children left
CompositeReturn(r) ==
    /\ memory' = r.memory
    /\ ret' = [op |-> "CompositeVerifier.verify",
               result |-> r.result, details |-> r.details, invoked |-> r.invoked,
               before |-> memory]

CompositeVerifyCall(vitest) ==
    /\ CompositeReturn(CompositeVerify(runner.verifier, memory, runner.testCode,
                                       vitest, runner.verifier.answers))
    /\ UNCHANGED WMVars

NextComposite ==
    \/ \E candidate \in Texts : WMSetFinalCandidate(candidate)
    \/ \E vitest \in VitestResults : CompositeVerifyCall(vitest)

SpecComposite == InitComposite /\ [][NextComposite]_vars

----------------------------------------------------------------------------
(* AgentGraph operations over every small graph *)

GraphNodeIds == {"a", "b", "c"}

\* The node lists: the non-empty sets of ids, each in every order
NodeLists ==
    UNION {{[i \in 1..Cardinality(S) |-> Node(p[i], "generator")] :
              p \in {q \in [1..Cardinality(S) -> S] :
                        \A i, j \in 1..Cardinality(S) : i # j => q[i] # q[j]}} :
           S \in (SUBSET GraphNodeIds) \ {{}}}

\* The edge lists: an edge may repeat, join a node to itself, or name an
\* id that is not a node of the graph
EdgeLists ==
    UNION {[1..n -> {Edge(from, to) : from, to \in GraphNodeIds}] :
           n \in 0..MaxEdges}

SmallGraphs ==
    {[nodes |-> nodes, edges |-> edges, final_node |-> Null] :
        nodes \in NodeLists, edges \in EdgeLists}

\* One behaviour follows one graph
InitGraph ==
    /\ InitState
    /\ runner \in {[DefaultRunner EXCEPT !.kind = "GraphRunner", !.graph = g] :
                       g \in SmallGraphs}

\* graph.topologicalOrder(): it has no throw
TopologicalOrderCall ==
    /\ ret' = [op |-> "topologicalOrder", threw |-> FALSE,
               order |-> topologicalOrder(runner.graph)]
    /\ UNCHANGED <<memory, WMVars>>

\* graph.getFinalNodeId()
GetFinalNodeIdCall ==
    /\ ret' = [op |-> "getFinalNodeId", threw |-> FALSE,
               value |-> getFinalNodeId(runner.graph)]
    /\ UNCHANGED <<memory, WMVars>>

NextGraph ==
    \/ TopologicalOrderCall
    \/ GetFinalNodeIdCall

SpecGraph == InitGraph /\ [][NextGraph]_vars

\* final_node as the schema admits it: absent, the empty string, or an id
FinalNodes == {Null, "", "b"}

\* The graphs of at most MaxFinalEdges edges, with every final_node
FinalNodeGraphs ==
    {[nodes |-> nodes, edges |-> edges, final_node |-> fn] :
        nodes \in NodeLists,
        edges \in {e \in EdgeLists : Len(e) <= MaxFinalEdges},
        fn \in FinalNodes}

InitFinalNode ==
    /\ InitState
    /\ runner \in {[DefaultRunner EXCEPT !.kind = "GraphRunner", !.graph = g] :
                       g \in FinalNodeGraphs}

SpecFinalNode == InitFinalNode /\ [][NextGraph]_vars

----------------------------------------------------------------------------
(* signArtifact and verifyArtifact in every environment of the process *)

GoodKey == [i \in 1..MIN_KEY_BYTES |-> "k"]

ShortKey == <<"k">>

\* The signing keys the environment may hold: none, a global one (long
\* enough or too short), one for the entity A
EnvVars ==
    {EmptyMap,
     [n \in {<<"MOLTBLOCK_SIGNING_KEY">>} |-> GoodKey],
     [n \in {<<"MOLTBLOCK_SIGNING_KEY">>} |-> ShortKey],
     [n \in {<<"MOLTBLOCK_SIGNING_KEY_", "A">>} |-> GoodKey]}

\* production: NODE_ENV is "production"; fsAvailable: the key file can be
\* read and written; insecureDevSigning: MOLTBLOCK_INSECURE_DEV_SIGNING is "1"
SigningEnvs ==
    [vars : EnvVars, production : BOOLEAN, fsAvailable : BOOLEAN,
     insecureDevSigning : BOOLEAN]

SigningIds == {<<"A">>, <<"a">>, <<"a", ".", "b">>, <<"a", "_", "b">>}

Payloads == {Repeated("x", 0), Repeated("x", 1), Repeated("y", 1)}

\* Strings that are no signature: the text of the tests, which decodes to
\* 12 bytes, and the empty string
MalformedSignatures ==
    {Base64([len |-> 12, key |-> NoKey, data |-> Repeated("?", 16)]),
     Base64([len |-> 0, key |-> NoKey, data |-> Repeated("", 0)])}

\* One behaviour follows one process environment
Process(env) == [kind |-> "process", env |-> env]

InitSigning == InitState /\ runner \in {Process(env) : env \in SigningEnvs}

SignArtifactCall(entityId, payload) ==
    /\ ret' = [op |-> "signArtifact", entity |-> entityId, payload |-> payload,
               threw |-> signArtifact(runner.env, entityId, payload).threw,
               value |-> signArtifact(runner.env, entityId, payload).value]
    /\ UNCHANGED <<memory, WMVars>>

\* verifyArtifact on a signature signArtifact has just returned, as it is
\* or with a line end after it
VerifyReturnedSignature(entityId, payload, trail) ==
    /\ ret.op = "signArtifact" /\ ~ret.threw
    /\ ret' = [op |-> "verifyArtifact", entity |-> entityId, payload |-> payload,
               signature |-> [ret.value EXCEPT !.trail = trail],
               returned |-> TRUE, signer |-> ret.entity, signed |-> ret.payload,
               threw |-> FALSE,
               value |-> verifyArtifact(runner.env, entityId, payload,
                                        [ret.value EXCEPT !.trail = trail])]
    /\ UNCHANGED <<memory, WMVars>>

\* verifyArtifact on a string that is no signature
VerifyMalformedSignature(entityId, payload, signature) ==
    /\ ret' = [op |-> "verifyArtifact", entity |-> entityId, payload |-> payload,
               signature |-> signature,
               returned |-> FALSE, signer |-> entityId, signed |-> payload,
               threw |-> FALSE,
               value |-> verifyArtifact(runner.env, entityId, payload, signature)]
    /\ UNCHANGED <<memory, WMVars>>

NextSigning ==
    \/ \E entityId \in SigningIds, payload \in Payloads :
          SignArtifactCall(entityId, payload)
    \/ \E entityId \in SigningIds, payload \in Payloads, trail \in {"", "\n"} :
          VerifyReturnedSignature(entityId, payload, trail)
    \/ \E entityId \in SigningIds, payload \in Payloads,
          signature \in MalformedSignatures :
          VerifyMalformedSignature(entityId, payload, signature)

SpecSigning == InitSigning /\ [][NextSigning]_vars

----------------------------------------------------------------------------
(* Handoff between entities: senders, and callers of putInbox, write to    *)
(* the inbox of one recipient, which reads it                              *)

\* The environments in which the key files can be used
HandoffEnvs == {env \in SigningEnvs : env.fsAvailable /\ ~env.insecureDevSigning}

HandoffSenders == {<<"a", ".", "b">>, <<"a", "_", "b">>}

\* Contents: empty, short, of the stored length, and longer than it
HandoffContents ==
    {Repeated("x", 0), Repeated("x", 1), Repeated("x", MAX_PAYLOAD_TEXT),
     Repeated("x", MAX_PAYLOAD_TEXT + 1)}

InitHandoff == InitState /\ runner \in {Process(env) : env \in HandoffEnvs}

HandoffFrame ==
    <<now, verified_memory, checkpoints, outcomes, strategies, audit_log,
      governance_state, runner, memory, run, writers, calls>>

SendArtifact(senderEntityId, entityId, artifactContent) ==
    /\ Len(inbox) < MaxInbox
    /\ inbox' = SendSigned(inbox, entityId, senderEntityId, artifactContent,
                           signArtifact(runner.env, senderEntityId, artifactContent))
    /\ ret' = [op |-> "sendArtifact", store |-> entityId,
               sender |-> senderEntityId, content |-> artifactContent,
               threw |-> signArtifact(runner.env, senderEntityId,
                                      artifactContent).threw]
    /\ UNCHANGED HandoffFrame

\* A caller of putInbox writes a row of its own making: the claimed sender,
\* the payload and the signature are what it says they are
PutInbox(entityId, fromEntityId, payloadText, signature) ==
    /\ Len(inbox) < MaxInbox
    /\ inbox' = putInbox(inbox, entityId, fromEntityId, <<"forged">>,
                         artifactHash(payloadText), signature, payloadText)
    /\ ret' = [op |-> "putInbox", store |-> entityId]
    /\ UNCHANGED HandoffFrame

\* The signatures such a caller may write: none, a string that is no
\* signature, and the signature another sender gives the payload
ForgedSignatures(fromEntityId, payloadText) ==
    MalformedSignatures \cup
    {signArtifact(runner.env, other, payloadText).value :
        other \in {o \in HandoffSenders \ {fromEntityId} :
                      ~signArtifact(runner.env, o, payloadText).threw}}

\* The read that removes the rows it returns
ReceiveArtifacts_consuming(entityId, limit, verify) ==
    /\ ret' = [op |-> "receiveArtifacts", store |-> entityId, limit |-> limit,
               verify |-> verify, threw |-> FALSE,
               rows |-> getInbox(inbox, entityId, limit),
               entries |-> receiveArtifacts(inbox, runner.env, entityId, limit,
                                            verify)]
    /\ inbox' = SelectSeq(inbox, LAMBDA row : row.entity_id # entityId)
    /\ UNCHANGED HandoffFrame

ReceiveArtifacts(entityId, limit, verify) ==
    /\ ret' = [op |-> "receiveArtifacts", store |-> entityId, limit |-> limit,
               verify |-> verify, threw |-> FALSE,
               rows |-> getInbox(inbox, entityId, limit),
               entries |-> receiveArtifacts(inbox, runner.env, entityId, limit,
                                            verify)]
    /\ UNCHANGED <<inbox, HandoffFrame>>

NextHandoff ==
    \/ \E sender \in HandoffSenders, content \in HandoffContents :
          SendArtifact(sender, "A", content)
    \/ \E from \in HandoffSenders,
          payload \in {Repeated("x", 0), Repeated("x", 1)} :
          \E signature \in ForgedSignatures(from, payload) :
              PutInbox("A", from, payload, signature)
    \/ \E limit \in {1, DEFAULT_INBOX_LIMIT}, verify \in BOOLEAN :
          ReceiveArtifacts("A", limit, verify)

SpecHandoff == InitHandoff /\ [][NextHandoff]_vars

----------------------------------------------------------------------------
(* runEval: the tasks of an evaluation run one after the other *)

EvalTaskLists == UNION {[1..n -> {<<"a">>, <<"b">>}] : n \in 0..MaxEvalTasks}

\* runEval(runTask, evalTasks, store) is called: passed = 0, the loop starts
StartEval(evalTasks, store) ==
    /\ run.pc \in {"idle", "returned", "threw"}
    /\ calls.runs < MaxRuns
    /\ calls' = [calls EXCEPT !.runs = @ + 1]
    /\ run' = [pc |-> "eval", store |-> store, tasks |-> evalTasks, idx |-> 1,
               passed |-> 0, base |-> [outcomes |-> Len(outcomes)]]
    /\ ret' = [op |-> "runEval-started"]
    /\ UNCHANGED <<now, storeVars, runner, memory, writers>>

\* One iteration of the loop: runTask answers ok, or throws, and then
\* nothing of the iteration is executed and runEval rejects
EvalTask ==
    /\ run.pc = "eval"
    /\ run.idx <= Len(run.tasks)
    /\ \/ \E ok \in BOOLEAN :
            /\ outcomes' = IF run.store # NoStore
                           THEN recordOutcome(outcomes, run.store, ok,
                                              Slice(run.tasks[run.idx], 100))
                           ELSE outcomes
            /\ run' = [run EXCEPT !.idx = @ + 1,
                                  !.passed = IF ok THEN @ + 1 ELSE @]
            /\ UNCHANGED ret
       \/ \E err \in ErrMsgs :
            /\ run' = [run EXCEPT !.pc = "threw"]
            /\ ret' = [op |-> "runEval", threw |-> TRUE, error |-> err]
            /\ UNCHANGED outcomes
    /\ UNCHANGED <<now, verified_memory, checkpoints, strategies, audit_log,
                   governance_state, inbox, runner, memory, writers, calls>>

\* return { passed, total: evalTasks.length }
EvalReturn ==
    /\ run.pc = "eval"
    /\ run.idx > Len(run.tasks)
    /\ run' = [run EXCEPT !.pc = "returned"]
    /\ ret' = [op |-> "runEval", threw |-> FALSE, passed |-> run.passed,
               total |-> Len(run.tasks)]
    /\ UNCHANGED <<now, storeVars, runner, memory, writers, calls>>

NextEval ==
    \/ \E evalTasks \in EvalTaskLists, store \in RunStores :
          StartEval(evalTasks, store)
    \/ EvalTask
    \/ EvalReturn

SpecEval == InitDefault /\ [][NextEval]_vars

----------------------------------------------------------------------------
(* Strategies: setStrategy called in sequence, and by concurrent writers *)

StrategyRoles == {"generator", "critic"}

StrategyContents == {<<"p", "1">>, <<"p", "2">>}

\* The maximum taken over every role of the entity
MaxVersion_anyRole(table, entityId, role) ==
    LET vs == {table[i].version : i \in {j \in 1..Len(table) :
                   table[j].entity_id = entityId}}
    IN  IF vs = {} THEN 0 ELSE CHOOSE v \in vs : \A w \in vs : w <= v

\* SELECT COALESCE(MAX(version), 0) FROM strategies WHERE entity_id = ? AND role = ?
MaxVersion(table, entityId, role) ==
    LET vs == {table[i].version : i \in {j \in 1..Len(table) :
                   table[j].entity_id = entityId /\ table[j].role = role}}
    IN  IF vs = {} THEN 0 ELSE CHOOSE v \in vs : \A w \in vs : w <= v

\* INSERT INTO strategies (entity_id, role, version, content, created_at)
InsertStrategy(table, entityId, role, version, content) ==
    Append(table, [entity_id |-> entityId, role |-> role, version |-> version,
                   content |-> content])

\* setStrategy(store, role, content) run from start to end
setStrategy(table, entityId, role, content) ==
    InsertStrategy(table, entityId, role,
                   MaxVersion(table, entityId, role) + 1, content)

\* getStrategy: ORDER BY version DESC LIMIT 1, Null when there is none
getStrategy(table, entityId, role) ==
    LET idx == {j \in 1..Len(table) :
                   table[j].entity_id = entityId /\ table[j].role = role}
    IN  IF idx = {} THEN <<Null>>
        ELSE table[CHOOSE i \in idx : \A j \in idx :
                       table[j].version <= table[i].version].content

SetStrategy(entityId, role, content) ==
    /\ Len(strategies) < MaxStrategyRows
    /\ strategies' = setStrategy(strategies, entityId, role, content)
    /\ ret' = [op |-> "setStrategy", entity |-> entityId, role |-> role]
    /\ UNCHANGED <<now, verified_memory, checkpoints, outcomes, audit_log,
                   governance_state, inbox, runner, memory, run, writers, calls>>

NextStrategy ==
    \E entityId \in Entities, role \in StrategyRoles, content \in StrategyContents :
        SetStrategy(entityId, role, content)

SpecStrategy == InitDefault /\ [][NextStrategy]_vars

InFlight == Cardinality({w \in Writers : writers[w].pc = "read"})

\* versionStmt.get(store.entityId, role): the first statement of setStrategy
WriterRead(w, entityId, role) ==
    /\ writers[w].pc = "idle"
    /\ Len(strategies) + InFlight < MaxStrategyRows
    /\ writers' = [writers EXCEPT ![w] =
          [pc |-> "read", entity |-> entityId, role |-> role,
           content |-> <<"prompt of ", w>>,
           maxVersion |-> MaxVersion(strategies, entityId, role)]]
    /\ UNCHANGED <<now, storeVars, runner, memory, run, ret, calls>>

\* stmt.run(store.entityId, role, version, content, ...): the second statement
WriterInsert(w) ==
    /\ writers[w].pc = "read"
    /\ strategies' = InsertStrategy(strategies, writers[w].entity, writers[w].role,
                                    writers[w].maxVersion + 1, writers[w].content)
    /\ writers' = [writers EXCEPT ![w] = [@ EXCEPT !.pc = "idle"]]
    /\ ret' = [op |-> "setStrategy", entity |-> writers[w].entity,
               role |-> writers[w].role]
    /\ UNCHANGED <<now, verified_memory, checkpoints, outcomes, audit_log,
                   governance_state, inbox, runner, memory, run, calls>>

NextConc ==
    \/ \E w \in Writers, entityId \in Entities, role \in StrategyRoles :
          WriterRead(w, entityId, role)
    \/ \E w \in Writers : WriterInsert(w)

SpecConc == InitDefault /\ [][NextConc]_vars

----------------------------------------------------------------------------
(* Governance *)

\* Seconds are kept as whole milliseconds: Date.now() / 1000 is the reading
\* now, and config.moltRateLimitSec is moltRateLimitMs / 1000.  The value of
\* last_molt_at is stored as text and parsed back.
NumToString(n) == ToString(n)

parseFloat(str) == CHOOSE n \in 0..(MaxGovTime + 1) : ToString(n) = str

GovernanceConfigs == [moltRateLimitMs : {0, 2}, humanVetoPaused : BOOLEAN]

EntityVersions == {"1.0.0", "2.0.0"}

\* The rate limit applied with the comparison turned round
canMolt_reversed(gs, entityId, config, t) ==
    IF config.humanVetoPaused /\ getGovernanceValue(gs, entityId, "paused") = "1"
    THEN [allowed |-> FALSE, reason |-> "Entity is paused (human veto)"]
    ELSE LET last == getGovernanceValue(gs, entityId, "last_molt_at") IN
         IF last # Null /\ last # "" /\ t - parseFloat(last) > config.moltRateLimitMs
         THEN [allowed |-> FALSE, reason |-> "Molt rate limit"]
         ELSE [allowed |-> TRUE, reason |-> ""]

\* The veto applied whatever config.humanVetoPaused says
canMolt_vetoAlways(gs, entityId, config, t) ==
    IF getGovernanceValue(gs, entityId, "paused") = "1"
    THEN [allowed |-> FALSE, reason |-> "Entity is paused (human veto)"]
    ELSE LET last == getGovernanceValue(gs, entityId, "last_molt_at") IN
         IF last # Null /\ last # "" /\ t - parseFloat(last) < config.moltRateLimitMs
         THEN [allowed |-> FALSE, reason |-> "Molt rate limit"]
         ELSE [allowed |-> TRUE, reason |-> ""]

\* The veto never consulted
canMolt_vetoIgnored(gs, entityId, config, t) ==
    LET last == getGovernanceValue(gs, entityId, "last_molt_at") IN
    IF last # Null /\ last # "" /\ t - parseFloat(last) < config.moltRateLimitMs
    THEN [allowed |-> FALSE, reason |-> "Molt rate limit"]
    ELSE [allowed |-> TRUE, reason |-> ""]

\* canMolt(store, config) read at clock reading t
canMolt(gs, entityId, config, t) ==
    IF config.humanVetoPaused /\ getGovernanceValue(gs, entityId, "paused") = "1"
    THEN [allowed |-> FALSE, reason |-> "Entity is paused (human veto)"]
    ELSE LET last == getGovernanceValue(gs, entityId, "last_molt_at") IN
         IF last # Null /\ last # "" /\ t - parseFloat(last) < config.moltRateLimitMs
         THEN [allowed |-> FALSE, reason |-> "Molt rate limit"]
         ELSE [allowed |-> TRUE, reason |-> ""]

GovFrame == <<inbox, runner, memory, run, writers>>

GovStep == /\ calls.gov < MaxGovCalls
           /\ calls' = [calls EXCEPT !.gov = @ + 1]

CanMolt(entityId, config) ==
    /\ GovStep
    /\ ret' = [op |-> "canMolt", entity |-> entityId, config |-> config,
               at |-> now,
               allowed |-> canMolt(governance_state, entityId, config, now).allowed]
    /\ UNCHANGED <<now, storeVars, GovFrame>>

\* The checkpoint written before canMolt is consulted
TriggerMolt_checkpointFirst(entityId, entityVersion, config, elapsed) ==
    /\ GovStep
    /\ now + elapsed <= MaxGovTime
    /\ checkpoints' = writeCheckpoint(checkpoints, entityId, entityVersion,
                                      <<"molt">>, <<>>, <<>>)
    /\ LET check == canMolt(governance_state, entityId, config, now) IN
       IF ~check.allowed
       THEN /\ ret' = [op |-> "triggerMolt", entity |-> entityId,
                       version |-> entityVersion,
                       config |-> config, at |-> now, success |-> FALSE,
                       message |-> check.reason]
            /\ UNCHANGED <<now, verified_memory, outcomes, strategies, audit_log,
                           governance_state>>
       ELSE /\ now' = now + elapsed
            /\ governance_state' =
                  setGovernanceValue(
                      setGovernanceValue(governance_state, entityId,
                                         "last_molt_at", NumToString(now')),
                      entityId, "entity_version", entityVersion)
            /\ audit_log' = auditLog(audit_log, entityId, "molt",
                                     <<"version=", entityVersion, " graph_hash=">>)
            /\ ret' = [op |-> "triggerMolt", entity |-> entityId,
                       version |-> entityVersion,
                       config |-> config, at |-> now, success |-> TRUE,
                       message |-> "Molt completed"]
            /\ UNCHANGED <<verified_memory, outcomes, strategies>>
    /\ UNCHANGED GovFrame

\* The molt that leaves entity_version as it was
TriggerMolt_noVersionBump(entityId, entityVersion, config, elapsed) ==
    /\ GovStep
    /\ now + elapsed <= MaxGovTime
    /\ LET check == canMolt(governance_state, entityId, config, now) IN
       IF ~check.allowed
       THEN /\ ret' = [op |-> "triggerMolt", entity |-> entityId,
                       version |-> entityVersion,
                       config |-> config, at |-> now, success |-> FALSE,
                       message |-> check.reason]
            /\ UNCHANGED <<now, storeVars>>
       ELSE /\ checkpoints' = writeCheckpoint(checkpoints, entityId, entityVersion,
                                              <<"molt">>, <<>>, <<>>)
            /\ now' = now + elapsed
            /\ governance_state' =
                  setGovernanceValue(governance_state, entityId,
                                     "last_molt_at", NumToString(now'))
            /\ audit_log' = auditLog(audit_log, entityId, "molt",
                                     <<"version=", entityVersion, " graph_hash=">>)
            /\ ret' = [op |-> "triggerMolt", entity |-> entityId,
                       version |-> entityVersion,
                       config |-> config, at |-> now, success |-> TRUE,
                       message |-> "Molt completed"]
            /\ UNCHANGED <<verified_memory, outcomes, strategies>>
    /\ UNCHANGED GovFrame

\* triggerMolt(store, entityVersion, config, {}): the clock is read once by
\* canMolt and once more for last_molt_at, elapsed ms pass in between
TriggerMolt(entityId, entityVersion, config, elapsed) ==
    /\ GovStep
    /\ now + elapsed <= MaxGovTime
    /\ LET check == canMolt(governance_state, entityId, config, now) IN
       IF ~check.allowed
       THEN /\ ret' = [op |-> "triggerMolt", entity |-> entityId,
                       version |-> entityVersion,
                       config |-> config, at |-> now, success |-> FALSE,
                       message |-> check.reason]
            /\ UNCHANGED <<now, storeVars>>
       ELSE /\ checkpoints' = writeCheckpoint(checkpoints, entityId, entityVersion,
                                              <<"molt">>, <<>>, <<>>)
            /\ now' = now + elapsed
            /\ governance_state' =
                  setGovernanceValue(
                      setGovernanceValue(governance_state, entityId,
                                         "last_molt_at", NumToString(now')),
                      entityId, "entity_version", entityVersion)
            /\ audit_log' = auditLog(audit_log, entityId, "molt",
                                     <<"version=", entityVersion, " graph_hash=">>)
            /\ ret' = [op |-> "triggerMolt", entity |-> entityId,
                       version |-> entityVersion,
                       config |-> config, at |-> now, success |-> TRUE,
                       message |-> "Molt completed"]
            /\ UNCHANGED <<verified_memory, outcomes, strategies>>
    /\ UNCHANGED GovFrame

Pause(entityId) ==
    /\ GovStep
    /\ governance_state' = setGovernanceValue(governance_state, entityId, "paused", "1")
    /\ audit_log' = auditLog(audit_log, entityId, "pause", <<"human veto">>)
    /\ ret' = [op |-> "pause", entity |-> entityId]
    /\ UNCHANGED <<now, verified_memory, checkpoints, outcomes, strategies, GovFrame>>

\* The resume that audits and leaves the paused value as it was
Resume_keepsPaused(entityId) ==
    /\ GovStep
    /\ audit_log' = auditLog(audit_log, entityId, "resume", <<>>)
    /\ ret' = [op |-> "resume", entity |-> entityId]
    /\ UNCHANGED <<now, verified_memory, checkpoints, outcomes, strategies,
                   governance_state, GovFrame>>

Resume(entityId) ==
    /\ GovStep
    /\ governance_state' = setGovernanceValue(governance_state, entityId, "paused", "0")
    /\ audit_log' = auditLog(audit_log, entityId, "resume", <<>>)
    /\ ret' = [op |-> "resume", entity |-> entityId]
    /\ UNCHANGED <<now, verified_memory, checkpoints, outcomes, strategies, GovFrame>>

isPaused(gs, entityId) == getGovernanceValue(gs, entityId, "paused") = "1"

IsPaused(entityId) ==
    /\ GovStep
    /\ ret' = [op |-> "isPaused", entity |-> entityId,
               value |-> isPaused(governance_state, entityId)]
    /\ UNCHANGED <<now, storeVars, GovFrame>>

\* The shutdown that also sets the paused value
EmergencyShutdown_alsoPauses(entityId) ==
    /\ GovStep
    /\ governance_state' = setGovernanceValue(governance_state, entityId, "paused", "1")
    /\ audit_log' = auditLog(audit_log, entityId, "emergency_shutdown", <<>>)
    /\ ret' = [op |-> "emergencyShutdown", entity |-> entityId]
    /\ UNCHANGED <<now, verified_memory, checkpoints, outcomes, strategies, GovFrame>>

EmergencyShutdown(entityId) ==
    /\ GovStep
    /\ audit_log' = auditLog(audit_log, entityId, "emergency_shutdown", <<>>)
    /\ ret' = [op |-> "emergencyShutdown", entity |-> entityId]
    /\ UNCHANGED <<now, verified_memory, checkpoints, outcomes, strategies,
                   governance_state, GovFrame>>

\* Time passes between governance calls
Elapse ==
    /\ now < MaxGovTime
    /\ now' = now + 1
    /\ UNCHANGED <<storeVars, runner, memory, run, writers, ret, calls>>

NextGov ==
    \/ \E entityId \in Entities, config \in GovernanceConfigs :
          CanMolt(entityId, config)
    \/ \E entityId \in Entities, entityVersion \in EntityVersions,
          config \in GovernanceConfigs, elapsed \in {0, 1} :
          TriggerMolt(entityId, entityVersion, config, elapsed)
    \/ \E entityId \in Entities : Pause(entityId)
    \/ \E entityId \in Entities : Resume(entityId)
    \/ \E entityId \in Entities : IsPaused(entityId)
    \/ \E entityId \in Entities : EmergencyShutdown(entityId)
    \/ Elapse

SpecGov == InitDefault /\ [][NextGov]_vars

----------------------------------------------------------------------------
(* The system prompt of a generator, critic or judge call *)

\* The registry as domain-prompts.ts builds it, and after
\* registerDomain("code", ..) has overwritten the entry of "code"
BuiltinRegistry ==
    [d \in {"code", "general"} |->
        [role \in {"generator", "critic", "judge"} |-> <<d, " prompt of ", role>>]]

CustomCodeRegistry ==
    [BuiltinRegistry EXCEPT !["code"] =
        [role \in {"generator", "critic", "judge"} |-> <<"custom prompt of ", role>>]]

\* getDomainPrompts: the entry of "general" when the domain is unknown
getDomainPrompts(registry, domain) ==
    IF domain \in DOMAIN registry THEN registry[domain] ELSE registry["general"]

\* CODE_GENERATOR_SYSTEM, CODE_CRITIC_SYSTEM, CODE_JUDGE_SYSTEM: the texts of
\* the built-in "code" entry
CodeDefaults == BuiltinRegistry["code"]

\* systemPrompt(role, store, domain); if (s) is false for null and for ""
systemPrompt(registry, table, role, store, domain) ==
    IF store # NoStore /\ getStrategy(table, store, role) # <<Null>>
                       /\ getStrategy(table, store, role) # <<>>
    THEN getStrategy(table, store, role)
    ELSE IF domain = "code" /\ role \in DOMAIN CodeDefaults
    THEN CodeDefaults[role]
    ELSE IF role \in DOMAIN getDomainPrompts(registry, domain)
    THEN getDomainPrompts(registry, domain)[role]
    ELSE getDomainPrompts(registry, domain)["generator"]

PromptRoles == {"generator", "judge"}

PromptContents == {<<>>, <<"p", "1">>}

PromptDomains == {"code", "general", "legal"}

InitPrompt ==
    /\ InitState
    /\ runner \in {[kind |-> "registry", registry |-> r] :
                      r \in {BuiltinRegistry, CustomCodeRegistry}}

\* runGenerator / runCritic / runJudge / runRole up to gateway.complete: the
\* system message is systemPrompt(role, store, domain)
RoleCall(role, store, domain) ==
    /\ ret' = [op |-> "complete", role |-> role, store |-> store,
               domain |-> domain,
               system |-> systemPrompt(runner.registry, strategies, role,
                                       store, domain)]
    /\ UNCHANGED <<now, storeVars, runner, memory, run, writers, calls>>

NextPrompt ==
    \/ \E role \in PromptRoles, content \in PromptContents :
          SetStrategy("A", role, content)
    \/ \E role \in PromptRoles, store \in {NoStore, "A", "B"},
          domain \in PromptDomains :
          RoleCall(role, store, domain)

SpecPrompt == InitPrompt /\ [][NextPrompt]_vars

----------------------------------------------------------------------------
(* One database used through the stores of two entities: runs, runEval,    *)
(* setStrategy, governance calls, deliveries, and the reads of each table  *)

\* Store.listCheckpoints(limit): ORDER BY id DESC LIMIT limit
listCheckpoints(table, entityId, limit) ==
    LET rows == Reverse(RowsOf(table, entityId)) IN
    SubSeq(rows, 1, Min(Len(rows), limit))

\* getRecentOutcomes(store, k): ORDER BY id DESC LIMIT k
getRecentOutcomes(table, entityId, k) ==
    LET rows == Reverse(RowsOf(table, entityId)) IN
    SubSeq(rows, 1, Min(Len(rows), k))

ReadFrame == <<now, storeVars, runner, memory, run, writers, calls>>

GetRecentVerified(entityId, k) ==
    /\ ret' = [op |-> "getRecentVerified", entity |-> entityId, k |-> k,
               rows |-> getRecentVerified(verified_memory, entityId, k)]
    /\ UNCHANGED ReadFrame

ListCheckpoints(entityId, limit) ==
    /\ ret' = [op |-> "listCheckpoints", entity |-> entityId, k |-> limit,
               rows |-> listCheckpoints(checkpoints, entityId, limit)]
    /\ UNCHANGED ReadFrame

GetRecentOutcomes(entityId, k) ==
    /\ ret' = [op |-> "getRecentOutcomes", entity |-> entityId, k |-> k,
               rows |-> getRecentOutcomes(outcomes, entityId, k)]
    /\ UNCHANGED ReadFrame

GetStrategy(entityId, role) ==
    /\ ret' = [op |-> "getStrategy", entity |-> entityId, role |-> role,
               value |-> getStrategy(strategies, entityId, role)]
    /\ UNCHANGED ReadFrame

\* The process: a CodeEntity that writes checkpoints, in an environment
\* where the key files can be used
DatabaseRunner ==
    [kind |-> "CodeEntity", verifier |-> NoVerifier, graph |-> PipelineGraph,
     testCode |-> <<>>, writeCheckpointAfter |-> TRUE,
     env |-> [vars |-> EmptyMap, production |-> FALSE, fsAvailable |-> TRUE,
              insecureDevSigning |-> FALSE]]

InitDatabase == InitState /\ runner = DatabaseRunner

\* The calls started so far; a behaviour starts at most MaxDatabaseOps
DatabaseOps == calls.gov + calls.runs + Len(strategies) + Len(inbox)

DatabaseConfig == [moltRateLimitMs |-> 0, humanVetoPaused |-> TRUE]

NextDatabase ==
    \/ /\ DatabaseOps < MaxDatabaseOps
       /\ \/ \E store \in Entities : StartRun(store, <<"a", "d", "d">>)
          \/ \E store \in Entities : StartEval(<<<<"a">>>>, store)
          \/ \E entityId \in Entities :
                SetStrategy(entityId, "generator", <<"p", "1">>)
          \/ \E entityId \in Entities :
                TriggerMolt(entityId, "1.0.0", DatabaseConfig, 0)
          \/ \E entityId \in Entities : Pause(entityId)
          \/ \E entityId \in Entities : Resume(entityId)
          \/ \E entityId \in Entities : EmergencyShutdown(entityId)
          \/ \E entityId \in Entities :
                SendArtifact(<<"a", ".", "b">>, entityId, Repeated("x", 1))
    \/ Generator
    \/ Critic
    \/ Judge
    \/ RunVerification
    \/ RecordOutcome
    \/ AdmitVerified
    \/ WriteCheckpoint
    \/ EvalTask
    \/ EvalReturn
    \/ \E entityId \in Entities : GetRecentVerified(entityId, 5)
    \/ \E entityId \in Entities : ListCheckpoints(entityId, DEFAULT_INBOX_LIMIT)
    \/ \E entityId \in Entities : GetRecentOutcomes(entityId, DEFAULT_INBOX_LIMIT)
    \/ \E entityId \in Entities : GetStrategy(entityId, "generator")
    \/ \E entityId \in Entities :
          ReceiveArtifacts(entityId, DEFAULT_INBOX_LIMIT, TRUE)

SpecDatabase == InitDatabase /\ [][NextDatabase]_vars

----------------------------------------------------------------------------
(* Properties *)

\* The rows a run has appended since it started
AppendedOutcomes == Len(outcomes) - run.base.outcomes
AppendedVerified == Len(verified_memory) - run.base.verified
AppendedCheckpoints == Len(checkpoints) - run.base.checkpoints

Returned == run.pc = "returned"

CountRows(table, keep(_)) == Cardinality({i \in 1..Len(table) : keep(table[i])})

\* C1: at the return of a run, a non-empty authoritativeArtifact implies that
\* the verifier applied in that run returned passed=true: no code path sets
\* a non-empty authoritative artifact without a passing verification result.
C1_NoAuthorityWithoutPass ==
    (Returned /\ memory.authoritativeArtifact # <<>>) => run.verdict = "passed"

\* C2: on one WorkingMemory instance, after any sequence of operations,
\* authoritativeArtifact is non-empty only if verificationPassed is true.
C2_ArtifactOnlyIfPassed ==
    memory.authoritativeArtifact # <<>> => memory.verificationPassed

\* C3: a run given a store has appended exactly one VerifiedMemory row when
\* it returns with verification passed and a non-empty authoritativeArtifact,
\* and none otherwise (a failed or rejected run appends none); no entity has
\* more VerifiedMemory rows than outcomes of passed runs.
C3_AdmissionIffPassed ==
    /\ (Returned /\ run.store # NoStore) =>
          /\ AppendedVerified =
                IF run.verdict = "passed" /\ memory.authoritativeArtifact # <<>>
                THEN 1 ELSE 0
          /\ AppendedVerified = 1 =>
                verified_memory[Len(verified_memory)].entity_id = run.store
    /\ (run.pc = "threw" \/ (Returned /\ run.verdict # "passed")) =>
          AppendedVerified = 0
    /\ \A e \in Entities :
          LET ofE(row) == row.entity_id = e
              passedOfE(row) == row.entity_id = e /\ row.verification_passed = 1
          IN  CountRows(verified_memory, ofE) <= CountRows(outcomes, passedOfE)

C3_Witness ==
    /\ Returned /\ run.store # NoStore /\ run.verdict = "passed"
    /\ AppendedVerified = 1

\* C4: within a run, no Outcome, VerifiedMemory or Checkpoint row is written
\* before verification has completed, a VerifiedMemory row is written only
\* after the run's Outcome row, and a Checkpoint row only after the run's
\* VerifiedMemory row.
C4_WriteOrder ==
    /\ run.verdict = "none" =>
          AppendedOutcomes = 0 /\ AppendedVerified = 0 /\ AppendedCheckpoints = 0
    /\ AppendedVerified > 0 => AppendedOutcomes > 0
    /\ AppendedCheckpoints > 0 => AppendedVerified > 0

C4_Witness ==
    Returned /\ AppendedOutcomes = 1 /\ AppendedVerified = 1 /\ AppendedCheckpoints = 1

\* C5: every run that is given a store and returns a WorkingMemory has
\* appended exactly one Outcome row, whose verification_passed equals the
\* returned memory's verificationPassed.
C5_OneOutcomePerRun ==
    (Returned /\ run.store # NoStore) =>
        /\ AppendedOutcomes = 1
        /\ outcomes[Len(outcomes)].entity_id = run.store
        /\ outcomes[Len(outcomes)].verification_passed =
              (IF memory.verificationPassed THEN 1 ELSE 0)

\* C6: a run writes a Checkpoint row only when writeCheckpointAfter is set
\* and its verification passed, and then exactly one row, whose artifact_refs
\* is the artifactRef of the VerifiedMemory row the same run admitted; a
\* failed or rejected run writes none.
C6_CheckpointOnlyAfterPass ==
    /\ AppendedCheckpoints \in {0, 1}
    /\ AppendedCheckpoints = 1 =>
          /\ run.writeCheckpointAfter
          /\ run.verdict = "passed"
          /\ AppendedVerified = 1
          /\ checkpoints[Len(checkpoints)].entity_id = run.store
          /\ checkpoints[Len(checkpoints)].artifact_refs =
                <<verified_memory[Len(verified_memory)].artifact_ref>>
    /\ (run.pc = "threw" \/ (Returned /\ run.verdict # "passed")) =>
          AppendedCheckpoints = 0

C6_Witness ==
    Returned /\ run.writeCheckpointAfter /\ AppendedCheckpoints = 1

\* The versions stored for one (entityId, role) pair, in insertion order
RECURSIVE VersionsOf(_, _, _)
VersionsOf(table, entityId, role) ==
    IF table = <<>> THEN <<>>
    ELSE (IF table[1].entity_id = entityId /\ table[1].role = role
          THEN <<table[1].version>> ELSE <<>>)
         \o VersionsOf(Tail(table), entityId, role)

\* C7: after any sequence of setStrategy calls, interleaved across roles and
\* entities, the versions stored for each (entityId, role) pair are exactly
\* 1..N in insertion order, N being the number of rows of that pair.
C7_VersionsGapless ==
    \A e \in Entities, r \in StrategyRoles :
        LET vs == VersionsOf(strategies, e, r) IN vs = [i \in 1..Len(vs) |-> i]

C7_Witness ==
    /\ Len(VersionsOf(strategies, "A", "generator")) = 2
    /\ Len(VersionsOf(strategies, "A", "critic")) = 2
    /\ strategies[1].role = "generator" /\ strategies[2].role = "critic"
    /\ strategies[3].role = "generator"

\* C8: when two writers execute setStrategy concurrently, their steps
\* interleaved in any way, no two rows of one (entityId, role) pair carry the
\* same version number.
C8_NoDuplicateVersions ==
    \A i, j \in 1..Len(strategies) :
        (i # j /\ strategies[i].entity_id = strategies[j].entity_id
               /\ strategies[i].role = strategies[j].role)
        => strategies[i].version # strategies[j].version

GovCall == calls'.gov = calls.gov + 1

\* C9: once a molt of an entity has succeeded at time t, every canMolt and
\* triggerMolt for that entity evaluated earlier than t + moltRateLimitSec is
\* denied, and a later successful molt is at least moltRateLimitSec after t.
C9_RateLimit ==
    [][\A e \in Entities :
          LET last == getGovernanceValue(governance_state, e, "last_molt_at") IN
          (GovCall /\ ret'.op \in {"canMolt", "triggerMolt"} /\ ret'.entity = e
             /\ last # Null) =>
             /\ now < parseFloat(last) + ret'.config.moltRateLimitMs =>
                   IF ret'.op = "canMolt" THEN ~ret'.allowed ELSE ~ret'.success
             /\ (ret'.op = "triggerMolt" /\ ret'.success) =>
                   parseFloat(getGovernanceValue(governance_state', e, "last_molt_at"))
                      >= parseFloat(last) + ret'.config.moltRateLimitMs]_vars

C9_Witness ==
    /\ ret.op = "triggerMolt" /\ ~ret.success /\ ret.message = "Molt rate limit"
    /\ getGovernanceValue(governance_state, ret.entity, "last_molt_at") # Null

\* C10: a triggerMolt call that is denied leaves the store as it was: no
\* Checkpoint row, no AuditLog row, last_molt_at and entity_version unchanged.
C10_DeniedMoltNoEffect ==
    [][(GovCall /\ ret'.op = "triggerMolt" /\ ~ret'.success)
          => UNCHANGED storeVars]_vars

C10_Witness ==
    /\ ret.op = "triggerMolt" /\ ~ret.success
    /\ ret.message = "Entity is paused (human veto)"
    /\ Len(audit_log) > 0

\* C11: a triggerMolt call that succeeds appends exactly one Checkpoint row,
\* of its entity and carrying the given entityVersion, sets entity_version to
\* that version and last_molt_at to the clock reading of the molt, so that
\* canMolt denies every later reading closer than the rate limit to it.
C11_MoltEffects ==
    [][(GovCall /\ ret'.op = "triggerMolt" /\ ret'.success) =>
          LET e == ret'.entity
              n == Len(checkpoints)
          IN  /\ Len(checkpoints') = n + 1
              /\ SubSeq(checkpoints', 1, n) = checkpoints
              /\ checkpoints'[n + 1].entity_id = e
              /\ checkpoints'[n + 1].entity_version = ret'.version
              /\ getGovernanceValue(governance_state', e, "entity_version")
                     = ret'.version
              /\ getGovernanceValue(governance_state', e, "last_molt_at")
                     = NumToString(now')
              /\ \A c \in GovernanceConfigs, t \in now'..(MaxGovTime + 1) :
                     t - now' < c.moltRateLimitMs
                        => ~canMolt(governance_state', e, c, t).allowed]_vars

\* A second molt of one entity, to another version, later than the first
C11_Witness ==
    /\ ret.op = "triggerMolt" /\ ret.success /\ ret.version = "2.0.0"
    /\ Len(RowsOf(checkpoints, ret.entity)) = 2
    /\ RowsOf(checkpoints, ret.entity)[1].entity_version = "1.0.0"
    /\ getGovernanceValue(governance_state, ret.entity, "last_molt_at") # "0"

\* C12: canMolt answers allowed = FALSE when config.humanVetoPaused is set
\* and the stored paused value is "1", allowed = FALSE when less than the
\* rate limit has elapsed since last_molt_at, allowed = TRUE in every other
\* state; the call always returns its answer.
C12_CanMoltCases ==
    [][(GovCall /\ ret'.op = "canMolt") =>
          LET e == ret'.entity
              c == ret'.config
              last == getGovernanceValue(governance_state, e, "last_molt_at")
              vetoed == c.humanVetoPaused
                           /\ getGovernanceValue(governance_state, e, "paused") = "1"
              tooSoon == last # Null
                           /\ now - parseFloat(last) < c.moltRateLimitMs
          IN  /\ "allowed" \in DOMAIN ret'
              /\ ret'.allowed = ~(vetoed \/ tooSoon)
              /\ UNCHANGED storeVars]_vars

\* canMolt denied by the veto alone: no molt was ever made
C12_Witness ==
    /\ ret.op = "canMolt" /\ ~ret.allowed /\ ret.config.humanVetoPaused
    /\ getGovernanceValue(governance_state, ret.entity, "paused") = "1"
    /\ getGovernanceValue(governance_state, ret.entity, "last_molt_at") = Null

\* C13: on one store isPaused is false before the first pause, true after
\* a pause until the next resume and false after a resume, whether or not
\* the call repeats the one before; no other call changes the answer, and
\* an isPaused call returns it.
C13_PauseResume ==
    [][\A e \in Entities :
          LET toggles == GovCall /\ ret'.entity = e
                            /\ ret'.op \in {"pause", "resume"}
              neverPaused == \A i \in 1..Len(audit_log) :
                                ~(audit_log[i].entity_id = e
                                    /\ audit_log[i].event_type = "pause")
          IN  /\ neverPaused => ~isPaused(governance_state, e)
              /\ toggles => (isPaused(governance_state', e) <=> ret'.op = "pause")
              /\ ~toggles => (isPaused(governance_state', e)
                                <=> isPaused(governance_state, e))
              /\ (GovCall /\ ret'.op = "isPaused" /\ ret'.entity = e)
                    => ret'.value = isPaused(governance_state, e)]_vars

\* isPaused answers false on a store that was paused and then resumed
C13_Witness ==
    /\ ret.op = "isPaused" /\ ~ret.value
    /\ LET log == RowsOf(audit_log, ret.entity) IN
       /\ Len(log) = 2
       /\ log[1].event_type = "pause" /\ log[2].event_type = "resume"

\* The event type under which a governance call is audited
AuditEventOf(op) ==
    IF op = "triggerMolt" THEN "molt"
    ELSE IF op = "emergencyShutdown" THEN "emergency_shutdown"
    ELSE op

\* C14: every successful triggerMolt, every pause, every resume and every
\* emergencyShutdown appends exactly one AuditLog row, of its entity and of
\* the corresponding event type; a denied triggerMolt, and any other step,
\* appends none; emergencyShutdown changes nothing else in the store.
C14_AuditExactly ==
    [][LET audited == /\ GovCall
                      /\ \/ ret'.op \in {"pause", "resume", "emergencyShutdown"}
                         \/ ret'.op = "triggerMolt" /\ ret'.success
       IN  /\ audited =>
                 /\ Len(audit_log') = Len(audit_log) + 1
                 /\ SubSeq(audit_log', 1, Len(audit_log)) = audit_log
                 /\ audit_log'[Len(audit_log')].entity_id = ret'.entity
                 /\ audit_log'[Len(audit_log')].event_type = AuditEventOf(ret'.op)
           /\ ~audited => audit_log' = audit_log
           /\ (GovCall /\ ret'.op = "emergencyShutdown") =>
                 UNCHANGED <<verified_memory, checkpoints, outcomes, strategies,
                             governance_state, inbox>>]_vars

\* An emergency shutdown of an entity that has molted and been paused
C14_Witness ==
    /\ ret.op = "emergencyShutdown"
    /\ audit_log[Len(audit_log)].event_type = "emergency_shutdown"
    /\ Len(RowsOf(audit_log, ret.entity)) = 3
    /\ Len(RowsOf(checkpoints, ret.entity)) = 1
    /\ isPaused(governance_state, ret.entity)

\* The lists that hold the elements of s, each once, in every order
Orderings(s) == {[i \in 1..Len(s) |-> s[p[i]]] : p \in Permutations(1..Len(s))}

\* The text a rule of the last verify call is matched against
PolicyTextOf(rule) ==
    getTargetText(rule.target, memory.finalCandidate,
                  IF "task" \in DOMAIN ret.context THEN ret.context.task
                  ELSE memory.task)

\* A category is allow-listed when an enabled allow rule of it matches
PolicyAllowListed(rules, category) ==
    \E i \in 1..Len(rules) :
        /\ rules[i].enabled /\ rules[i].action = "allow"
        /\ rules[i].category = category
        /\ RegexTest(rules[i].pattern, PolicyTextOf(rules[i]))

\* C15: PolicyVerifier.verify passes exactly when no enabled deny rule
\* matches its target text in a category that is not allow-listed; the
\* verdict is the same for every order of the rules and with the disabled
\* rules taken out, and an allow rule of one category does not hide a deny
\* rule of another.
C15_PolicyAllowOverridesDeny ==
    ret.op = "PolicyVerifier.verify" =>
        LET rules == runner.verifier.rules
            passed == ret.result.passed
        IN  /\ passed <=>
                  ~\E i \in 1..Len(rules) :
                       /\ rules[i].enabled /\ rules[i].action = "deny"
                       /\ RegexTest(rules[i].pattern, PolicyTextOf(rules[i]))
                       /\ ~PolicyAllowListed(rules, rules[i].category)
            /\ \A other \in Orderings(rules) :
                  PolicyVerifierVerify(other, memory, ret.context).passed = passed
            /\ PolicyVerifierVerify(
                  FilterSeq(rules, {r \in SeqToSet(rules) : r.enabled}),
                  memory, ret.context).passed = passed

\* A deny rule of one category fires although an allow rule of another
\* category matches the same text, and a disabled allow rule of the deny
\* rule's own category matches too
C15_Witness ==
    /\ ret.op = "PolicyVerifier.verify" /\ ~ret.result.passed
    /\ memory.finalCandidate = <<"R", "M">>
    /\ \E i, j \in 1..Len(runner.verifier.rules) :
          LET a == runner.verifier.rules[i]
              d == runner.verifier.rules[j]
          IN  /\ a.action = "allow" /\ a.enabled /\ a.target = "artifact"
              /\ a.category = "test"
              /\ d.action = "allow" /\ ~d.enabled /\ d.target = "artifact"
              /\ d.category = "destructive-cmd"

\* The name a child of the given kind reports
LeafName(kind) == IF kind = "CodeVerifier" THEN "CodeVerifier" ELSE "Pure"

\* The children of the last verify call were consulted in list order, the
\* details being their results, a Pure child's being the answer it gave
ConsultedInOrder ==
    /\ Len(ret.invoked) = Len(ret.details)
    /\ Len(ret.details) <= Len(runner.verifier.children)
    /\ \A i \in 1..Len(ret.details) :
          /\ ret.invoked[i] = i
          /\ ret.details[i].verifierName = LeafName(runner.verifier.children[i])
          /\ runner.verifier.children[i] = "Pure" =>
                /\ ret.details[i].passed = runner.verifier.answers[i].passed
                /\ ret.details[i].evidence = runner.verifier.answers[i].evidence

\* C16: in fail-fast mode CompositeVerifier.verify consults its children in
\* list order and stops at the first one that fails: no later child is
\* invoked, details holds the results of the consulted children in order,
\* and all of them but the last passed unless every child passed.
C16_FailFast ==
    (ret.op = "CompositeVerifier.verify" /\ runner.verifier.failFast) =>
        LET k == Len(ret.details)
            n == Len(runner.verifier.children)
        IN  /\ ConsultedInOrder
            /\ k >= 1
            /\ \A i \in 1..(k - 1) : ret.details[i].passed
            /\ k < n => ~ret.details[k].passed
            /\ (k < n /\ "CodeVerifier" \notin
                    {runner.verifier.children[i] : i \in 1..k})
                  => memory = ret.before

\* Fail-fast stopped at a failing first child; the CodeVerifier after it
\* would have written to the memory and did not
C16_Witness ==
    /\ ret.op = "CompositeVerifier.verify" /\ runner.verifier.failFast
    /\ runner.verifier.children = <<"Pure", "CodeVerifier">>
    /\ Len(ret.details) = 1 /\ ~ret.details[1].passed
    /\ memory.finalCandidate # <<>> /\ memory.verificationEvidence = <<>>

\* C17: in collect-all mode every child is invoked exactly once in list
\* order and details has one entry per child; in both modes the composite
\* passes exactly when every consulted child passed.
C17_CollectAllAndVerdict ==
    ret.op = "CompositeVerifier.verify" =>
        /\ ~runner.verifier.failFast =>
              /\ ConsultedInOrder
              /\ Len(ret.details) = Len(runner.verifier.children)
        /\ ret.result.passed <=>
              \A i \in 1..Len(ret.details) : ret.details[i].passed

\* Collect-all went on after a failing first child to a passing second one
C17_Witness ==
    /\ ret.op = "CompositeVerifier.verify" /\ ~runner.verifier.failFast
    /\ Len(ret.details) = 2
    /\ ~ret.details[1].passed /\ ret.details[2].passed
    /\ ~ret.result.passed

\* The ids of the nodes of a graph
NodeIdsOf(g) == {g.nodes[i].id : i \in 1..Len(g.nodes)}

\* Every edge joins two nodes of the graph
EdgesReferenceNodes(g) ==
    \A i \in 1..Len(g.edges) :
        g.edges[i].from \in NodeIdsOf(g) /\ g.edges[i].to \in NodeIdsOf(g)

\* b is reached from a along at most n edges between nodes of the graph
RECURSIVE ReachedWithin(_, _, _, _)
ReachedWithin(g, a, b, n) ==
    /\ n > 0
    /\ \E i \in 1..Len(g.edges) :
          /\ g.edges[i].from = a
          /\ g.edges[i].to \in NodeIdsOf(g)
          /\ g.edges[i].to = b \/ ReachedWithin(g, g.edges[i].to, b, n - 1)

\* No node of the graph is reached from itself
Acyclic(g) ==
    \A a \in NodeIdsOf(g) : ~ReachedWithin(g, a, a, Cardinality(NodeIdsOf(g)))

\* The positions of an id in an order
PositionsOf(order, id) == {i \in 1..Len(order) : order[i] = id}

\* C18: for every acyclic graph whose edges reference existing nodes,
\* topologicalOrder returns an order in which, for every edge from a to b,
\* a appears before b.
C18_TopologicalOrderRespectsEdges ==
    (ret.op = "topologicalOrder" /\ Acyclic(runner.graph)
        /\ EdgesReferenceNodes(runner.graph)) =>
        \A i \in 1..Len(runner.graph.edges) :
            LET e == runner.graph.edges[i] IN
            /\ PositionsOf(ret.order, e.from) # {}
            /\ PositionsOf(ret.order, e.to) # {}
            /\ \A x \in PositionsOf(ret.order, e.from),
                  y \in PositionsOf(ret.order, e.to) : x < y

\* A chain listed backwards comes out in edge order
C18_Witness ==
    /\ ret.op = "topologicalOrder"
    /\ [i \in 1..Len(runner.graph.nodes) |-> runner.graph.nodes[i].id]
          = <<"c", "b", "a">>
    /\ runner.graph.edges = <<Edge("b", "c"), Edge("a", "b")>>
    /\ ret.order = <<"a", "b", "c">>

\* C19: on a graph that contains a cycle topologicalOrder fails with a
\* CyclicGraph error; it does not return an order that leaves nodes out.
C19_CycleIsAnError ==
    (ret.op = "topologicalOrder" /\ ~Acyclic(runner.graph)) =>
        /\ ret.threw
        /\ Len(ret.order) = Cardinality(NodeIdsOf(runner.graph))

\* C20: a GraphRunner whose graph resolves no final node does not go on to
\* verification: the run ends with an UnresolvedFinalNode error.
C20_UnresolvedFinalNodeSurfaced ==
    (runner.kind = "GraphRunner" /\ getFinalNodeId(runner.graph) = Null) =>
        run.pc \notin {"verify", "outcome", "admit", "checkpoint", "returned"}

\* The nodes of a graph that no edge leaves
SinkNodes(g) ==
    {i \in 1..Len(g.nodes) :
        \A k \in 1..Len(g.edges) : g.edges[k].from # g.nodes[i].id}

\* C21: getFinalNodeId returns the explicit final_node whenever one is set;
\* otherwise the node without outgoing edges when exactly one such node
\* exists; otherwise (no such node, or several) it yields no final node.
C21_FinalNodeResolution ==
    ret.op = "getFinalNodeId" =>
        LET g == runner.graph IN
        /\ ~ret.threw
        /\ g.final_node \notin {Null, ""} => ret.value = g.final_node
        /\ (g.final_node \in {Null, ""} /\ Cardinality(SinkNodes(g)) = 1) =>
               \E i \in SinkNodes(g) : ret.value = g.nodes[i].id
        /\ (g.final_node \in {Null, ""} /\ Cardinality(SinkNodes(g)) # 1) =>
               ret.value = Null

\* No final_node is set, two of three nodes have no outgoing edge, and the
\* call yields no final node
C21_Witness ==
    /\ ret.op = "getFinalNodeId" /\ ret.value = Null
    /\ runner.graph.final_node = Null
    /\ Len(runner.graph.nodes) = 3
    /\ Cardinality(SinkNodes(runner.graph)) = 2

\* The nodes of the running graph that the node loop executes
ExecutedNodeIds ==
    {run.order[i] : i \in {k \in 1..Len(run.order) :
                              FindNode(runner.graph, run.order[k]).role # "verifier"}}

\* C22: with continueOnError = true a failing node has its error recorded
\* under meta.nodeErrors[nodeId] and its slot set to the empty text, the
\* remaining nodes are still executed, verification still runs and the run
\* returns without throwing; when every node fails, finalCandidate is empty
\* and meta.nodeErrors has one entry per node.
C22_ContinueOnError ==
    run.continueOnError =>
        /\ run.pc # "threw"
        /\ Returned =>
              /\ run.verdict # "none"
              /\ \A id \in ExecutedNodeIds : id \in DOMAIN memory.slots
              /\ "nodeErrors" \in DOMAIN memory.meta =>
                    /\ \A id \in DOMAIN memory.meta.nodeErrors :
                           getSlot(memory, id) = <<>>
                    /\ DOMAIN memory.meta.nodeErrors = ExecutedNodeIds
                           => memory.finalCandidate = <<>>

\* C23: without continueOnError, a failure of a node's role function makes
\* GraphRunner.run reject with that error: no later node is executed,
\* verification is not run, and the run writes no Outcome, VerifiedMemory
\* or Checkpoint row.
C23_NodeFailureAborts ==
    [][(runner.kind = "GraphRunner" /\ ~run.continueOnError) =>
          /\ (run.pc = "nodes" /\ run'.pc = "threw") =>
                /\ ret'.op = "run" /\ ret'.threw /\ ret'.error \in ErrMsgs
                /\ run'.verdict = "none"
                /\ Len(outcomes') = run'.base.outcomes
                /\ Len(verified_memory') = run'.base.verified
                /\ Len(checkpoints') = run'.base.checkpoints
                /\ UNCHANGED <<memory, storeVars>>
          /\ (run.pc = "threw" /\ calls' = calls) =>
                UNCHANGED <<run, memory, storeVars>>]_vars

\* The second node of a run with a store fails, after the first node ran and
\* after an earlier run of the same runner recorded its outcome
C23_Witness ==
    /\ runner.kind = "GraphRunner" /\ run.pc = "threw" /\ run.store # NoStore
    /\ run.idx = 2 /\ "generator" \in DOMAIN memory.slots
    /\ Len(outcomes) = 1 /\ AppendedOutcomes = 0

\* C24: for every entityId and payload, verifyArtifact(entityId, payload,
\* signArtifact(entityId, payload)) is true; the same signature verified
\* against another payload or another entityId is false; a malformed
\* signature yields false; the call never throws.
C24_SignatureRoundTrip ==
    ret.op = "verifyArtifact" =>
        /\ ~ret.threw
        /\ (ret.returned /\ ret.signature.trail = "") =>
              (ret.value <=> (ret.entity = ret.signer /\ ret.payload = ret.signed))
        /\ (ret.returned /\ (ret.entity # ret.signer \/ ret.payload # ret.signed))
              => ~ret.value
        /\ ~ret.returned => ~ret.value

\* C25: with verify = true, receiveArtifacts reports verified = true for an
\* inbox row only if the row's stored signature equals the signature
\* expected for the row's claimed sender and payload text; every other row,
\* one with an empty signature or payload included, is reported verified =
\* false; the call never throws.
C25_VerifiedOnlyIfSignatureMatches ==
    (ret.op = "receiveArtifacts" /\ ret.verify) =>
        /\ ~ret.threw
        /\ Len(ret.entries) = Len(ret.rows)
        /\ \A i \in 1..Len(ret.rows) :
              LET row == ret.rows[i]
                  expected == signArtifact(runner.env, row.from_entity_id,
                                           row.payload_text)
              IN  ret.entries[i].verified <=>
                      (~expected.threw /\ row.signature = expected.value)

\* C26: for any content, of any length, after sendArtifact(sender,
\* recipientStore, content) a receiveArtifacts(recipientStore, verify = true)
\* returns an entry whose from_entity_id is the sender, whose payload text is
\* the content that was sent and whose verified flag is true.
C26_SendReceiveRoundTrip ==
    [][(/\ ret.op = "sendArtifact" /\ ~ret.threw
        /\ ret'.op = "receiveArtifacts" /\ ret'.verify
        /\ ret'.store = ret.store)
          => \E i \in 1..Len(ret'.entries) :
                /\ ret'.entries[i].from_entity_id = ret.sender
                /\ ret'.entries[i].payload_text = ret.content
                /\ ret'.entries[i].verified]_vars

\* C27: runEval never propagates an error thrown by runTask: a task whose
\* runTask throws counts as a failing result, the remaining tasks are still
\* executed, total is the number of tasks, and with a store exactly one
\* Outcome row is recorded per task, the throwing ones included.
C27_EvalNeverThrows ==
    /\ run.pc # "threw"
    /\ ret.op = "runEval" =>
          /\ ~ret.threw
          /\ ret.total = Len(run.tasks)
          /\ ret.passed <= ret.total
          /\ run.store # NoStore =>
                Len(outcomes) - run.base.outcomes = Len(run.tasks)

\* C28: in CodeEntity.run and Entity.run a failing generator makes the run
\* return, not throw, with verificationPassed = false, an evidence naming
\* the generator failure, meta.generatorError set, and empty finalCandidate
\* and authoritativeArtifact; critic, judge and verifier are not invoked
\* and no VerifiedMemory or Checkpoint row is written.
C28_GeneratorFailureReturns ==
    [][(run.pc = "generator" /\ run'.pc \notin {"generator", "critic"}) =>
          /\ run'.pc = "returned"
          /\ ret' = [op |-> "run", threw |-> FALSE]
          /\ ~memory'.verificationPassed
          /\ Len(memory'.verificationEvidence) >= 1
          /\ memory'.verificationEvidence[1] = "Generator failed: "
          /\ "generatorError" \in DOMAIN memory'.meta
          /\ memory'.finalCandidate = <<>>
          /\ memory'.authoritativeArtifact = <<>>
          /\ verified_memory' = verified_memory
          /\ checkpoints' = checkpoints]_vars

\* C29: in CodeEntity.run and Entity.run a failing critic is recorded in
\* meta.criticError and the judge runs next with an empty critique; a
\* failing judge is recorded in meta.judgeError and the draft becomes the
\* final candidate; neither makes the run throw, and the verifier runs next.
C29_CriticJudgeFailureDegrades ==
    [][/\ (run.pc = "critic" /\ run'.pc # "critic") =>
             /\ run'.pc = "judge"
             /\ "criticError" \in DOMAIN memory'.meta => memory'.critique = <<>>
       /\ (run.pc = "judge" /\ run'.pc # "judge") =>
             /\ run'.pc = "verify"
             /\ "judgeError" \in DOMAIN memory'.meta =>
                   memory'.finalCandidate = memory.draft]_vars

\* C30: whenever a run returns a memory with verificationPassed = false,
\* its verificationEvidence is a non-empty text, whichever of the syntax
\* check, the test run, the policy or the composite verifier failed (a
\* verifier the caller wrote, which may answer anything, is left aside).
C30_FailureHasEvidence ==
    (/\ ret = [op |-> "run", threw |-> FALSE]
     /\ runner.verifier # LeafVerifier("Pure")
     /\ ~memory.verificationPassed)
        => memory.verificationEvidence # <<>>

IsPrefix(s, t) == Len(s) <= Len(t) /\ SubSeq(t, 1, Len(s)) = s

TableReads == {"getRecentVerified", "listCheckpoints", "getRecentOutcomes"}

\* C31: under every sequence of core operations the rows of VerifiedMemory,
\* Checkpoint, Outcome, Strategy, AuditLog and Inbox are only appended: a row
\* once written is never changed or removed; a read writes nothing, and the
\* same read made again on the state it left returns the same rows.
C31_AppendOnly ==
    [][/\ IsPrefix(verified_memory, verified_memory')
       /\ IsPrefix(checkpoints, checkpoints')
       /\ IsPrefix(outcomes, outcomes')
       /\ IsPrefix(strategies, strategies')
       /\ IsPrefix(audit_log, audit_log')
       /\ IsPrefix(inbox, inbox')
       /\ (ret' # ret /\ ret'.op \in TableReads \cup {"receiveArtifacts"}) =>
             UNCHANGED storeVars
       /\ (ret' # ret /\ ret'.op = "getRecentVerified") =>
             ret'.rows = getRecentVerified(verified_memory', ret'.entity, ret'.k)
       /\ (ret' # ret /\ ret'.op = "listCheckpoints") =>
             ret'.rows = listCheckpoints(checkpoints', ret'.entity, ret'.k)
       /\ (ret' # ret /\ ret'.op = "getRecentOutcomes") =>
             ret'.rows = getRecentOutcomes(outcomes', ret'.entity, ret'.k)
       /\ (ret' # ret /\ ret'.op = "receiveArtifacts") =>
             ret'.entries = receiveArtifacts(inbox', runner.env, ret'.store,
                                             ret'.limit, ret'.verify)]_vars

\* Two rows are in the inbox and a read has just returned the reader's
C31_Witness ==
    /\ Len(inbox) = 2
    /\ ret.op = "receiveArtifacts"
    /\ ret.rows # <<>>
    /\ ret.rows = getInbox(inbox, ret.store, ret.limit)

GovernanceKeys == {"paused", "last_molt_at", "entity_version"}

\* What a Store with entityId b reads from tables in these states
ViewOf(b, st, gs, vm, oc, cp, ib) ==
    [strategies |-> RowsOf(st, b),
     prompts |-> [role \in RoleNames |-> getStrategy(st, b, role)],
     governance |-> [k \in GovernanceKeys |-> getGovernanceValue(gs, b, k)],
     verified |-> RowsOf(vm, b),
     outcomes |-> RowsOf(oc, b),
     checkpoints |-> RowsOf(cp, b),
     inbox |-> RowsOf(ib, b)]

\* The entities through whose Store a step may have been made: the store of
\* the run or evaluation that moved, the store the returned call names
StepStores ==
    (IF run' # run THEN {run.store, run'.store} ELSE {})
    \cup (IF "entity" \in DOMAIN ret' THEN {ret'.entity} ELSE {})
    \cup (IF "store" \in DOMAIN ret' THEN {ret'.store} ELSE {})

\* C32: an operation made through the Store of one entity (a run, setStrategy,
\* a governance write, a molt, a delivery into its inbox) changes nothing of
\* what the Store of another entity on the same database reads: strategies
\* and their versions, governance state, verified memory, outcomes,
\* checkpoints, inbox.
C32_EntityIsolation ==
    [][\A b \in Entities :
          ViewOf(b, strategies', governance_state', verified_memory',
                 outcomes', checkpoints', inbox')
            # ViewOf(b, strategies, governance_state, verified_memory,
                     outcomes, checkpoints, inbox)
          => b \in StepStores]_vars

\* B was paused, then A was resumed: B still reads paused, A reads resumed
C32_Witness ==
    /\ ret = [op |-> "resume", entity |-> "A"]
    /\ getGovernanceValue(governance_state, "A", "paused") = "0"
    /\ getGovernanceValue(governance_state, "B", "paused") = "1"

\* C33: the artifact_ref of every VerifiedMemory row differs from the
\* artifact_ref of every other VerifiedMemory row of the same entity,
\* whatever the clock read when the rows were admitted.
C33_ArtifactRefsUnique ==
    \A i, j \in 1..Len(verified_memory) :
        (i # j /\ verified_memory[i].entity_id = verified_memory[j].entity_id)
            => verified_memory[i].artifact_ref # verified_memory[j].artifact_ref

\* The content of the highest-version Strategy of the role, <<Null>> if none
HighestStrategy(table, entityId, role) ==
    LET idx == {i \in 1..Len(table) :
                   /\ table[i].entity_id = entityId /\ table[i].role = role
                   /\ table[i].version = MaxVersion(table, entityId, role)}
    IN  IF idx = {} THEN <<Null>> ELSE table[CHOOSE i \in idx : TRUE].content

\* C34: a generator, critic or judge call made with a store that holds a
\* Strategy for the role uses the content of the role's highest-version
\* Strategy as its system prompt; without a persisted Strategy (or without a
\* store) it uses the registry prompt of the active domain.
C34_StrategyBeforeRegistry ==
    ret.op = "complete" =>
        ret.system =
            IF ret.store # NoStore
               /\ HighestStrategy(strategies, ret.store, ret.role) # <<Null>>
            THEN HighestStrategy(strategies, ret.store, ret.role)
            ELSE getDomainPrompts(runner.registry, ret.domain)[ret.role]

(* GraphRunner.run over every small acyclic graph *)

\* The acyclic graphs of at most MaxRunEdges edges between their own nodes;
\* node b is an agent node or a verifier node
RunGraphs ==
    {g \in {[nodes |-> [i \in 1..Len(ns) |->
                           IF ns[i].id = "b" THEN Node("b", r) ELSE ns[i]],
             edges |-> es, final_node |-> Null] :
               ns \in NodeLists,
               es \in {e \in EdgeLists : Len(e) <= MaxRunEdges},
               r \in {"generator", "verifier"}} :
        Acyclic(g) /\ EdgesReferenceNodes(g)}

InitGraphRun ==
    /\ InitState
    /\ runner \in {[kind |-> "GraphRunner", verifier |-> NoVerifier, graph |-> g,
                     testCode |-> <<>>, writeCheckpointAfter |-> TRUE] :
                       g \in RunGraphs}

\* One run of the graph, with a store
NextGraphRun ==
    \/ calls.runs = 0 /\ StartRun("A", <<"a", "d", "d">>)
    \/ RunNode
    \/ SetFinal
    \/ RunVerification
    \/ RecordOutcome
    \/ AdmitVerified
    \/ WriteCheckpoint

SpecGraphRun == InitGraphRun /\ [][NextGraphRun]_vars

\* The node the loop is at, and whether this step executes it
LoopNode == FindNode(runner.graph, run.order[run.idx])

ExecutesNode ==
    /\ run.pc = "nodes" /\ run.idx <= Len(run.order)
    /\ run'.pc = "nodes" /\ run'.idx = run.idx + 1
    /\ LoopNode.role # "verifier"

\* The step writes the slot of the node it executes and no other slot, the
\* node was not executed before, and the loop ends with every node that is
\* not a verifier executed
ExecutedOnceInIsolation ==
    /\ ExecutesNode =>
          /\ LoopNode.id \notin DOMAIN memory.slots
          /\ DOMAIN memory'.slots = (DOMAIN memory.slots) \cup {LoopNode.id}
          /\ \A id \in DOMAIN memory.slots : memory'.slots[id] = memory.slots[id]
    /\ (run.pc = "nodes" /\ run'.pc # "nodes" /\ run'.pc # "threw") =>
          \A i \in 1..Len(runner.graph.nodes) :
              runner.graph.nodes[i].role # "verifier"
                  => runner.graph.nodes[i].id \in DOMAIN memory'.slots
    /\ (run.pc = "nodes" /\ run'.pc = "nodes") =>
          \A id \in DOMAIN memory'.slots :
              id \in DOMAIN memory.slots \/ (ExecutesNode /\ id = LoopNode.id)

RoleInputs(g, m, nodeId) ==
    [p \in SeqToSet(predecessors(g, nodeId)) |-> getSlot(m, p)]

\* inputs[key] ?? ""
InputOr(inputs, key) == IF key \in DOMAIN inputs THEN inputs[key] ELSE <<>>

\* The draft and the critique runRole puts in the user message of a role
runRoleUser(role, task, inputs) ==
    [task |-> task,
     draft |-> IF role \in {"critic", "judge"}
               THEN InputOr(inputs, "generator") ELSE <<>>,
     critique |-> IF role = "judge" THEN InputOr(inputs, "critic") ELSE <<>>]

\* The pipeline generator -> critic -> judge with its nodes named after
\* their roles, and the same pipeline with other node ids
NamedPipeline(gen, crit, judge) ==
    [nodes |-> <<Node(gen, "generator"), Node(crit, "critic"),
                 Node(judge, "judge")>>,
     edges |-> <<Edge(gen, crit), Edge(gen, judge), Edge(crit, judge)>>,
     final_node |-> Null]

RoleGraphs == {NamedPipeline("generator", "critic", "judge"),
               NamedPipeline("a", "b", "c")}

InitRoleGraph ==
    /\ InitState
    /\ runner \in {[kind |-> "GraphRunner", verifier |-> NoVerifier, graph |-> g,
                     testCode |-> <<>>, writeCheckpointAfter |-> TRUE] :
                       g \in RoleGraphs}

SpecRoleGraph == InitRoleGraph /\ [][NextGraphRun]_vars

\* The user message of the node this step executes
LoopUser ==
    runRoleUser(LoopNode.role, run.task,
                RoleInputs(runner.graph, memory, LoopNode.id))

\* C36: in GraphRunner.run a critic node is given as draft the output of its
\* generator-role predecessor, and a judge node is given as draft and
\* critique the outputs of its generator-role and critic-role predecessors,
\* whatever the node ids are.
C36_RoleInputsByRole ==
    [][(ExecutesNode /\ LoopNode.role \in {"critic", "judge"}) =>
          \A p \in SeqToSet(predecessors(runner.graph, LoopNode.id)) :
              /\ FindNode(runner.graph, p).role = "generator"
                    => LoopUser.draft = getSlot(memory, p)
              /\ (LoopNode.role = "judge"
                    /\ FindNode(runner.graph, p).role = "critic")
                    => LoopUser.critique = getSlot(memory, p)]_vars

\* C37: when the verifier of a run is a CompositeVerifier over a CodeVerifier
\* and at least one other verifier, and the composite result is failed, the
\* memory the run returns has an empty authoritativeArtifact and the run has
\* written no VerifiedMemory row, even if the CodeVerifier child passed.
C37_CompositeFailureLeavesNoArtifact ==
    (/\ Returned
     /\ runner.verifier.kind = "CompositeVerifier"
     /\ "CodeVerifier" \in SeqToSet(runner.verifier.children)
     /\ Len(runner.verifier.children) >= 2
     /\ ~memory.verificationPassed)
        => /\ memory.authoritativeArtifact = <<>>
           /\ AppendedVerified = 0

\* A step of triggerMolt for an entity whose GovernanceState says paused = "1"
MoltWhilePaused ==
    /\ calls'.gov = calls.gov + 1
    /\ ret'.op = "triggerMolt"
    /\ getGovernanceValue(governance_state, ret'.entity, "paused") = "1"

----------------------------------------------------------------------------
(* Long-term context: runs over a store that callers also write directly *)

\* A text one character past the 500 a preview is cut to
LongContent == [i \in 1..501 |-> "x"]

\* The direct calls of store.addVerified the caller makes: for entity A a
\* row with a long preview or a row with a summary and no preview, for
\* entity B a row with a long preview
VerifiedCalls ==
    { [entity |-> "A", summary |-> <<"s">>, contentPreview |-> LongContent],
      [entity |-> "A", summary |-> <<"s", "u", "m">>, contentPreview |-> <<>>],
      [entity |-> "B", summary |-> <<"s">>, contentPreview |-> LongContent] }

\* store.addVerified(artifactRef, summary, contentPreview) called directly
AddVerified(entityId, summary, contentPreview) ==
    /\ Len(verified_memory) < MaxContextRows
    /\ verified_memory' = addVerified(verified_memory, entityId, <<"prev-art">>,
                                      summary, contentPreview)
    /\ ret' = [op |-> "addVerified", entity |-> entityId]
    /\ UNCHANGED <<now, checkpoints, outcomes, strategies, audit_log,
                   governance_state, inbox, runner, memory, run, writers, calls>>

\* A GraphRunner over the graph of one generator node
ContextRunner ==
    [kind |-> "GraphRunner", verifier |-> NoVerifier,
     graph |-> [nodes |-> <<Node("a", "generator")>>, edges |-> <<>>,
                final_node |-> Null],
     testCode |-> <<>>, writeCheckpointAfter |-> FALSE]

InitContext == InitState /\ runner = ContextRunner

\* The caller fills the store, then runs entity A on it twice
NextContext ==
    \/ \E c \in VerifiedCalls :
          calls.runs = 0 /\ AddVerified(c.entity, c.summary, c.contentPreview)
    \/ StartRun("A", <<"a", "d", "d">>)
    \/ RunNode
    \/ SetFinal
    \/ RunVerification
    \/ RecordOutcome
    \/ AdmitVerified
    \/ WriteCheckpoint

SpecContext == InitContext /\ [][NextContext]_vars

\* The rows getRecentVerified(5) hands to a run of the entity, newest first
RecentOf(entityId) ==
    LET mine == SelectSeq(verified_memory, LAMBDA r : r.entity_id = entityId)
        n == Min(5, Len(mine))
    IN  [i \in 1..n |-> mine[Len(mine) + 1 - i]]

\* What one row contributes: its preview cut to 500 characters, else its
\* summary whole, else nothing
ContextEntry(e) ==
    IF e.content_preview # <<>> THEN SubSeq(e.content_preview, 1,
                                            Min(500, Len(e.content_preview)))
    ELSE e.summary

\* The step that starts a run on a store
RunStarts ==
    /\ run.pc \in {"idle", "returned", "threw"}
    /\ run'.pc \notin {"idle", "returned", "threw"}
    /\ run'.store # NoStore

\* The step in which a run decides on admission
RunAdmits == run.pc = "admit" /\ run' # run

\* C39 as stated: the longTermContext injected at the start of a run
\* consists only of previews, of at most 500 characters each, of at most the
\* 5 most recent VerifiedMemory rows of the running entity; a run whose
\* verification failed adds nothing to verified memory, so its output is in
\* no later longTermContext.
C39_ContextIsPreviews ==
    [][/\ RunStarts =>
             LET recent == RecentOf(run'.store)
                 shown == SelectSeq(recent, LAMBDA e : e.content_preview # <<>>)
             IN  memory'.longTermContext =
                    JoinWith([i \in 1..Len(shown) |->
                                 SubSeq(shown[i].content_preview, 1,
                                        Min(500, Len(shown[i].content_preview)))],
                             <<"\n---\n">>)
       /\ (RunAdmits /\ ~memory.verificationPassed)
              => verified_memory' = verified_memory]_vars

\* C39 as the code has it: each of the at most 5 most recent rows of the
\* running entity contributes its content_preview cut to 500 characters
\* or, when the preview is empty, its summary uncut; rows with neither
\* contribute nothing; rows of other entities never contribute; a run whose
\* verification failed adds nothing to verified memory, and a run that
\* admits adds one row of its own entity holding its artifact.
C39_ContextIsPreviewsOrSummaries ==
    [][/\ RunStarts =>
             LET recent == RecentOf(run'.store)
                 shown == SelectSeq(recent, LAMBDA e : ContextEntry(e) # <<>>)
             IN  memory'.longTermContext =
                    JoinWith([i \in 1..Len(shown) |-> ContextEntry(shown[i])],
                             <<"\n---\n">>)
       /\ (RunAdmits /\ ~memory.verificationPassed)
              => verified_memory' = verified_memory
       /\ (RunAdmits /\ verified_memory' # verified_memory)
              => /\ Len(verified_memory') = Len(verified_memory) + 1
                 /\ SubSeq(verified_memory', 1, Len(verified_memory))
                        = verified_memory
                 /\ verified_memory'[Len(verified_memory')].entity_id = run.store
                 /\ verified_memory'[Len(verified_memory')].content_preview
                        = memory.authoritativeArtifact]_vars

\* A second run of entity A started over more than five rows of A, among
\* them a row an earlier run admitted and a preview longer than 500
\* characters, with rows of entity B in the table
C39_Witness ==
    /\ calls.runs = 2
    /\ run.pc = "nodes"
    /\ run.idx = 1
    /\ run.store = "A"
    /\ Len(SelectSeq(verified_memory, LAMBDA r : r.entity_id = "A")) > 5
    /\ \E i \in 1..Len(verified_memory) : verified_memory[i].entity_id = "B"
    /\ \E e \in SeqToSet(RecentOf("A")) :
          e.artifact_ref # <<"prev-art">> /\ e.content_preview # <<>>
    /\ \E e \in SeqToSet(RecentOf("A")) : Len(e.content_preview) > 500
    /\ Len(memory.longTermContext) > 500

----------------------------------------------------------------------------
(* runVerifier without test code, on candidates over a small alphabet *)

CodeChars == {"{", "}", "(", "\"", "\\", "/", "*", "\n", Backquote}

CodeTexts == UNION {[1..n -> CodeChars] : n \in 0..MaxCodeLen}

\* runVerifier(memory) called without test code
RunVerifier ==
    /\ memory' = runVerifier(memory, <<>>, [passed |-> FALSE, output |-> <<>>])
    /\ ret' = [op |-> "runVerifier", candidate |-> memory.finalCandidate]
    /\ UNCHANGED WMVars

\* The candidate the caller holds is drawn once
InitSyntax ==
    /\ InitState
    /\ runner \in {[kind |-> "candidate", code |-> c] : c \in CodeTexts}

NextSyntax ==
    \/ WMSetFinalCandidate(runner.code)
    \/ RunVerifier

SpecSyntax == InitSyntax /\ [][NextSyntax]_vars

Quotes == {"\"", "'", Backquote}

NoneOpen == [brace |-> 0, paren |-> 0, bracket |-> 0]

\* The text from position i on, read as code ("code"), as a line comment
\* ("line"), as a block comment ("block") or as a string literal opened by
\* the quote mode, with open the openers not yet closed: whether every
\* closer closes an opener of its kind, every opener gets closed and no
\* string literal is left open.  Inside a string literal a backslash takes
\* the character after it with it.
RECURSIVE Balance(_, _, _, _)
Balance(code, i, mode, open) ==
    IF i > Len(code) THEN mode \notin Quotes /\ open = NoneOpen
    ELSE LET c == code[i]
             n == CharAt(code, i + 1)
         IN
         IF mode = "line"
         THEN Balance(code, i + 1, IF c = "\n" THEN "code" ELSE "line", open)
         ELSE IF mode = "block"
         THEN IF c = "*" /\ n = "/" THEN Balance(code, i + 2, "code", open)
              ELSE Balance(code, i + 1, "block", open)
         ELSE IF mode \in Quotes
         THEN IF c = "\\" THEN Balance(code, i + 2, mode, open)
              ELSE Balance(code, i + 1, IF c = mode THEN "code" ELSE mode, open)
         ELSE IF c = "/" /\ n = "/" THEN Balance(code, i + 2, "line", open)
         ELSE IF c = "/" /\ n = "*" THEN Balance(code, i + 2, "block", open)
         ELSE IF c \in Quotes THEN Balance(code, i + 1, c, open)
         ELSE IF c = "{"
         THEN Balance(code, i + 1, "code", [open EXCEPT !.brace = @ + 1])
         ELSE IF c = "("
         THEN Balance(code, i + 1, "code", [open EXCEPT !.paren = @ + 1])
         ELSE IF c = "["
         THEN Balance(code, i + 1, "code", [open EXCEPT !.bracket = @ + 1])
         ELSE IF c = "}"
         THEN open.brace > 0
              /\ Balance(code, i + 1, "code", [open EXCEPT !.brace = @ - 1])
         ELSE IF c = ")"
         THEN open.paren > 0
              /\ Balance(code, i + 1, "code", [open EXCEPT !.paren = @ - 1])
         ELSE IF c = "]"
         THEN open.bracket > 0
              /\ Balance(code, i + 1, "code", [open EXCEPT !.bracket = @ - 1])
         ELSE Balance(code, i + 1, "code", open)

WellBalanced(code) == Balance(code, 1, "code", NoneOpen)

\* C40: for a non-empty final candidate and no test code runVerifier passes
\* exactly when, outside string literals and comments, every closer closes
\* a still-open opener of its kind, every opener is closed by the end and
\* no string literal is left unterminated; an empty candidate always fails.
C40_PassesIffBalanced ==
    ret.op = "runVerifier" =>
        (memory.verificationPassed
            <=> (ret.candidate # <<>> /\ WellBalanced(ret.candidate)))

====
